---- MODULE Spec2Model ----
(***************************************************************************)
(* A model of the touring media aggregator: the TTL payload cache          *)
(* (src/src/db.rs), the identity mapping and cached search                 *)
(* (src/src/lib.rs, src/src/dao.rs), the plugin host's URL allow-list      *)
(* (src/src/plugins/plugin.rs) and the per-plugin worker protocol          *)
(* (src/src/plugins.rs).                                                   *)
(*                                                                         *)
(* Conventions.  An Option<T> is a sequence of length at most one: None is *)
(* << >> and Some(x) is <<x>>.  A SQL table is the set of its rows.  A     *)
(* composed cache key "a|b|c|d" is the tuple of its segments.              *)
(***************************************************************************)
EXTENDS Integers, Sequences, FiniteSets, TLC

VARIABLES
    search_cache,   \* table search_cache: rows [key, payload, expires_at]
    got,            \* the latest get_cache call and what it returned
    lastPut,        \* per key, the latest put_cache call
    \* -- one plugin slot, its worker thread and the callers of that plugin
    slot,           \* PluginSlot.state: "none" or "ready" (Some(worker))
    chan,           \* the worker's mpsc channel: commands in arrival order
    running,        \* commands whose plugin operation is in progress
    attempt,        \* per command, the invocation of retry_once it is in
    wdead,          \* the worker thread has died (its receiver is dropped)
    req,            \* per caller: "idle", "blocked", "waiting", "done"
    reply,          \* per caller's oneshot: "empty", "ok", "err", "dropped"
    timer,          \* per caller, ticks since timeout(call_timeout, ..) began
    waited,         \* per caller, ticks since the call was issued
    outcome,        \* per caller, what the call returned and when
    cmdlog,         \* the commands in the order enqueued, and in the order started
    \* -- the identity tables
    sources,        \* table sources: rows [id, version]
    series,         \* table series: rows [id, kind, title, description, cover_url]
    series_sources, \* table series_sources: rows [series_id, source_id, external_id]
    uuid_count,     \* how many ids Uuid::new_v4() has handed out
    \* -- tasks that run get_or_create_series_id concurrently
    rpc,            \* per task: "idle", "find", "series", "link", "done"
    rarg,           \* per task, the arguments [source_id, media] of its call
    rnew,           \* per task, the local new_id
    rret,           \* per task, the series id its latest call returned
    \* -- the aggregator (Touring) and its plugin manager
    allowed_hosts,  \* per plugin, Plugin.allowed_hosts as read from <name>.toml
    slots,          \* PluginManager.slots: plugin names, in list order
    clock,          \* current_epoch()
    chapters,       \* table chapters: rows [id, series_id, source_id, external_id, title]
    episodes,       \* table episodes: rows [id, series_id, source_id, external_id, title]
    streams,        \* table streams: rows [episode_id, url]
    pages_by,       \* rows [key, by]: the plugin whose assets a pages entry holds
    op_count,       \* the operations issued so far
    op,             \* the operation in progress or last completed, and its result
    \* -- one Plugin instance (plugins/plugin.rs) and its operation in progress
    plugin,         \* the Plugin's fields, and where its current operation is
    \* -- further tables, and the DAO call made last (dao.rs)
    chapter_images, \* table chapter_images: rows [chapter_id, idx, url]
    chapter_progress, \* table chapter_progress: rows [chapter_id, series_id, page_index]
    series_prefs,   \* table series_prefs: rows [series_id, download_path]
    dao_op,         \* the DAO call that ran last, and what it returned
    \* -- one PluginSlot with its lock, and the tasks that call worker()
    pslot,          \* the slot's artifacts, state and guard; each task's call
    \* -- the helper functions, applied to one input at a time
    pure            \* the function applied last, its input and its result

cacheVars == <<search_cache, got, lastPut>>
workerVars == <<slot, chan, running, attempt, wdead, req, reply, timer,
                waited, outcome, cmdlog>>
identVars == <<sources, series, series_sources, uuid_count>>
raceVars == <<rpc, rarg, rnew, rret>>
aggVars == <<allowed_hosts, slots, clock, chapters, episodes, streams,
             pages_by, op_count, op>>
plugVars == <<plugin>>
daoVars == <<chapter_images, chapter_progress, series_prefs, dao_op>>
slotVars == <<pslot>>
pureVars == <<pure>>
sideVars == <<plugVars, daoVars, slotVars, pureVars>>
nonWorkerVars == <<cacheVars, identVars, raceVars, aggVars, sideVars>>
nonCacheVars == <<workerVars, identVars, raceVars, aggVars, sideVars>>
vars == <<search_cache, got, lastPut, slot, chan, running, attempt, wdead,
          req, reply, timer, waited, outcome, cmdlog, sources, series, series_sources,
          uuid_count, rpc, rarg, rnew, rret, allowed_hosts, slots, clock,
          chapters, episodes, streams, pages_by, op_count, op, plugin,
          chapter_images, chapter_progress, series_prefs, dao_op, pslot, pure>>

None == << >>
Some(x) == <<x>>

----------------------------------------------------------------------------
(* Bounds and value sets.                                                  *)

\* The cache model: the largest epoch second, the writes per key.
MaxExpire == 3
MaxPuts == 2

CacheKeys == {"k1", "k2"}
CachePayloads == {"a", "b"}
Epochs == 0..MaxExpire

\* The worker model: the callers, the channel capacity (mpsc::channel(64),
\* scaled to the number of callers) and call_timeout in clock ticks.
NumCallers == 4
ChannelCap == 2
CallTimeout == 2

Callers == 1..NumCallers

\* The identity race: the tasks that call get_or_create_series_id.
NumTasks == 2

Tasks == 1..NumTasks

\* The aggregator: the operations issued, the last epoch second, and the
\* TTLs in seconds (TOURING_SEARCH_TTL_SECS, TOURING_PAGES_TTL_SECS).
MaxOps == 2
SearchTtl == 1
PagesTtl == SearchTtl + 1
MaxNow == PagesTtl

\* The plugin names, listed in ascending order of str::cmp.
NameOrder == <<"p1", "p2">>
Plugins == {NameOrder[i] : i \in 1..Len(NameOrder)}

\* The ids Uuid::new_v4() hands out, in the order it hands them out.
UuidPool == <<"u01", "u02", "u03", "u04", "u05", "u06", "u07", "u08", "u09",
              "u10", "u11", "u12", "u13", "u14", "u15", "u16", "u17", "u18">>
Uuid(n) == UuidPool[n]

\* MediaType, and the strings types.rs writes for it into the cache.
Manga == <<"Manga">>
Anime == <<"Anime">>
Other(s) == <<"Other", s>>

\* A URL as Url::parse reads it: its scheme and the labels of its host.
\* A text that does not parse has neither.
Url(scheme, host) == [scheme |-> scheme, host |-> host]
UrlCdn == Url("https", <<"cdn", "example", "com">>)
UrlApex == Url("http", <<"example", "com">>)
UrlEvil == Url("https", <<"evil", "com">>)
UrlFtp == Url("ftp", <<"example", "com">>)
UrlBroken == Url("", << >>)

\* An allowed_hosts entry: "*.d" is [wild |-> TRUE, host |-> d].
HostPattern(wild, host) == [wild |-> wild, host |-> host]

\* The configurations the plugins are run with.
Configs ==
    { [p \in Plugins |-> IF p = "p1" THEN a ELSE b] :
        <<a, b>> \in { <<Some(<<HostPattern(FALSE, <<"static", "org">>),
                               HostPattern(FALSE, <<"cdn", "example", "com">>)>>),
                         None>>,
                       <<Some(<< >>),
                         Some(<<HostPattern(TRUE, <<"example", "com">>)>>)>> } }
AllowLists == {c[p] : c \in Configs, p \in Plugins}

\* Media as plugins return it.
Media(id, mediatype, title, url, cover_url) ==
    [id |-> id, mediatype |-> mediatype, title |-> title, description |-> None,
     url |-> url, cover_url |-> cover_url]
M1 == Media("m1", Manga, "One", Some(UrlCdn), Some(UrlEvil))
M2 == Media("m2", Anime, "Two", Some(UrlFtp), None)
MErr == Media("error", Manga, "HTTP Error: 500", None, None)

\* The lists a guest's fetchmedialist returns.
GuestMediaLists == {<<MErr>>, <<MErr, M1, M2>>}

\* Unit and Asset as plugins return them.
Unit(id, kind, title, url) ==
    [id |-> id, kind |-> kind, title |-> title, url |-> url,
     number_text |-> None, number |-> None, lang |-> None, group |-> None,
     published_at |-> None, upload_group |-> None]
U1 == Unit("c1", "Chapter", "First", Some(UrlApex))
U2 == Unit("e1", "Episode", "", Some(UrlEvil))
GuestUnitLists == {<< >>, <<U1>>, <<U2, U1>>}

Asset(url, kind) == [url |-> url, kind |-> kind]
A1 == Asset(UrlCdn, "Page")
A2 == Asset(UrlEvil, "Image")
A3 == Asset(UrlApex, "Video")
A4 == Asset(UrlBroken, "Video")
GuestAssetLists == {<<A2, A1>>, <<A3, A4>>, <<A1, A2, A3>>}

\* The ways a call on a plugin ends without a reply from its worker.
CallFailures == {"load_error", "send_error", "dropped", "timeout"}

\* Raw search queries, as the characters of the string.
Queries == {<<" ", "A", "\t", " ", "b", " ">>, <<"a", " ", "B">>}

\* The media, chapter and episode ids callers ask about.
MediaIds == {"m1"}
ChapterIds == {"c1"}
EpisodeIds == {"e1"}

\* The plugin directories load_plugins_from_directory is pointed at: the
\* file names in each, as <<stem, extension>>.
PluginDirs ==
    { {<<"p2", "wasm">>, <<"p2", "toml">>, <<"p1", "cwasm">>, <<"p1", "toml">>},
      {<<"p2", "wasm">>, <<"p1", "wasm">>, <<"p1", "cwasm">>, <<"p1", "toml">>,
       <<"p1", "txt">>} }

----------------------------------------------------------------------------
(* The state after construction, part by part.                             *)

NoGet == [called |-> FALSE]
NoPut == [n |-> 0]
\* No operation has been issued: the fields of op at their defaults.
NoOp ==
    [name |-> "none", status |-> "ok", kind |-> Manga, arg |-> << >>,
     refresh |-> FALSE, now |-> 0, i |-> 1, invoked |-> << >>,
     lists |-> << >>, hits |-> {}, made |-> {}, all |-> << >>,
     source |-> None, try_id |-> "", external_id |-> "",
     cache0 |-> {}, failed |-> {}, faults |-> {}]

\* Database::connect: an empty cache table.
CacheIdleInit ==
    /\ search_cache = {}
    /\ got = NoGet
    /\ lastPut = [k \in CacheKeys |-> NoPut]

\* PluginSlot::new: state None, no worker thread, no command in flight.
WorkerIdleInit ==
    /\ slot = "none"
    /\ chan = << >>
    /\ running = {}
    /\ attempt = [c \in Callers |-> 0]
    /\ wdead = FALSE
    /\ req = [c \in Callers |-> "idle"]
    /\ reply = [c \in Callers |-> "empty"]
    /\ timer = [c \in Callers |-> 0]
    /\ waited = [c \in Callers |-> 0]
    /\ outcome = [c \in Callers |-> [kind |-> "none", at |-> 0, total |-> 0]]
    /\ cmdlog = [enqueued |-> << >>, started |-> << >>]

\* A migrated, empty database.
IdentIdleInit ==
    /\ sources = {}
    /\ series = {}
    /\ series_sources = {}
    /\ uuid_count = 0

\* No task has called get_or_create_series_id yet.
RaceIdleInit ==
    /\ rpc = [t \in Tasks |-> "idle"]
    /\ rarg = [t \in Tasks |-> None]
    /\ rnew = [t \in Tasks |-> None]
    /\ rret = [t \in Tasks |-> None]

\* Touring::connect: PluginManager::new() has no slots.
ManagerIdleInit ==
    /\ slots = << >>
    /\ clock = 0
    /\ chapters = {}
    /\ episodes = {}
    /\ streams = {}
    /\ pages_by = {}
    /\ op_count = 0
    /\ op = NoOp

\* No Plugin has been constructed; the counters count what the operation
\* in progress has done so far.
NoPlugin ==
    [built |-> FALSE, name |-> "", allowed_hosts |-> None, caps |-> None,
     last_call |-> FALSE, deadline |-> "far", pc |-> "idle",
     opname |-> "none", kind |-> Manga, attempt |-> 0, exports |-> 0,
     throttles |-> 0, deadlines |-> 0, slept |-> 0, failed |-> 0,
     res |-> None, ret |-> <<"none">>, ops |-> 0, cached |-> FALSE,
     toml |-> "none", rate_limit |-> 0, call_timeout |-> 0,
     elapsed |-> 0, start_gap |-> None, throttle_slept |-> 0,
     epoch_ticks |-> 0, ticker |-> "spawned", deadline_at |-> 0,
     armed_at |-> 0]

PluginIdleInit == plugin = NoPlugin

\* Freshly migrated tables; no DAO call has been made.
NoDaoOp == [name |-> "none", arg |-> "", ret |-> 0, cascaded |-> 0]
DaoIdleInit ==
    /\ chapter_images = {}
    /\ chapter_progress = {}
    /\ series_prefs = {}
    /\ dao_op = NoDaoOp

\* The tasks that call PluginSlot::worker() on one slot, and the calls
\* each of them makes.
NumSlotCallers == 2
MaxSlotCalls == 2
SlotCallers == 1..NumSlotCallers

\* No PluginSlot has been made; no task has called worker().
NoSlot ==
    [made |-> FALSE, primary |-> "", fallback |-> None, state |-> None,
     guard |-> 0, workers |-> 0,
     pc |-> [c \in SlotCallers |-> "idle"],
     tried |-> [c \in SlotCallers |-> << >>],
     ret |-> [c \in SlotCallers |-> <<"none">>],
     calls |-> [c \in SlotCallers |-> 0]]

SlotIdleInit == pslot = NoSlot

\* No helper function has been applied.
NoPure == [fn |-> "none", arg |-> << >>, res |-> << >>]
PureIdleInit == pure = NoPure

\* Everything but the helper functions is as constructed.
OthersIdleInit ==
    /\ CacheIdleInit
    /\ WorkerIdleInit
    /\ IdentIdleInit
    /\ RaceIdleInit
    /\ ManagerIdleInit
    /\ PluginIdleInit
    /\ DaoIdleInit
    /\ SlotIdleInit
    /\ allowed_hosts = [p \in Plugins |-> None]

\* No plugin's <name>.toml sets allowed_hosts.
Init ==
    /\ CacheIdleInit
    /\ WorkerIdleInit
    /\ IdentIdleInit
    /\ RaceIdleInit
    /\ ManagerIdleInit
    /\ PluginIdleInit
    /\ DaoIdleInit
    /\ SlotIdleInit
    /\ PureIdleInit
    /\ allowed_hosts = [p \in Plugins |-> None]

\* Each plugin's <name>.toml is what the operator wrote.
ConfiguredInit ==
    /\ CacheIdleInit
    /\ WorkerIdleInit
    /\ IdentIdleInit
    /\ RaceIdleInit
    /\ ManagerIdleInit
    /\ PluginIdleInit
    /\ DaoIdleInit
    /\ SlotIdleInit
    /\ PureIdleInit
    /\ allowed_hosts \in Configs

----------------------------------------------------------------------------
(* plugins.rs: one plugin slot, its worker thread, and the callers.        *)

\* A worker that receives the next command while an operation is running.
WorkerFreeAlways == TRUE

\* while let Some(cmd) = rx.blocking_recv() { ... reply.send(plugin.op()) }:
\* the loop comes back to blocking_recv only when the operation has returned.
WorkerFree == running = {}

\* A caller that awaits reply_rx without a timeout.
TimeoutDueNever(c) == FALSE

\* tokio::time::timeout(call_timeout, reply_rx): the deadline has come.
TimeoutDue(c) == timer[c] >= CallTimeout

\* A receive that yields the command enqueued last.
RecvNewest(q) == q[Len(q)]

\* rx.blocking_recv(): the oldest command in the channel.
Recv(q) == Head(q)

\* A caller that still takes a reply after its call has returned.
ReceiverAliveAfterReturn(c) == req[c] \in {"waiting", "done"}

\* reply_rx lives inside timeout(call_timeout, reply_rx): it is awaited
\* until the call returns and dropped with it.
ReceiverAlive(c) == req[c] = "waiting"

\* Callers are interchangeable: they issue their calls in index order.
MayStart(c) == req[c] = "idle" /\ \A d \in Callers : d < c => req[d] # "idle"

\* The call returns to its caller with outcome kind.
Finish(c, kind) ==
    /\ req' = [req EXCEPT ![c] = "done"]
    /\ outcome' = [outcome EXCEPT ![c] =
            [kind |-> kind, at |-> timer[c], total |-> waited[c]]]
    /\ timer' = [timer EXCEPT ![c] = 0]
    /\ waited' = [waited EXCEPT ![c] = 0]
    /\ UNCHANGED cmdlog
    /\ UNCHANGED nonWorkerVars

\* slot.worker() fails: no artifact could be instantiated; state stays None.
CallLoadFail(c) ==
    /\ MayStart(c)
    /\ slot = "none"
    /\ Finish(c, "load_error")
    /\ UNCHANGED <<slot, chan, running, attempt, wdead, reply>>

\* slot.worker() succeeds (instantiating the worker on first use) and
\* tx.send(cmd) finds room in the channel; the caller starts the timeout.
CallEnqueue(c) ==
    /\ MayStart(c)
    /\ ~wdead
    /\ Len(chan) < ChannelCap
    /\ \A d \in Callers : req[d] # "blocked"
    /\ slot' = "ready"
    /\ chan' = Append(chan, c)
    /\ cmdlog' = [cmdlog EXCEPT !.enqueued = Append(@, c)]
    /\ req' = [req EXCEPT ![c] = "waiting"]
    /\ UNCHANGED <<running, attempt, wdead, reply, timer, waited, outcome>>
    /\ UNCHANGED nonWorkerVars

\* tx.send(cmd).await on a full channel: the caller awaits capacity, behind
\* the senders that already wait for it.
CallBlock(c) ==
    /\ MayStart(c)
    /\ ~wdead
    /\ slot = "ready"
    /\ Len(chan) >= ChannelCap \/ \E d \in Callers : req[d] = "blocked"
    /\ req' = [req EXCEPT ![c] = "blocked"]
    /\ UNCHANGED <<slot, chan, running, attempt, wdead, reply, timer, waited,
                   outcome>>
    /\ UNCHANGED cmdlog
    /\ UNCHANGED nonWorkerVars

\* Capacity has become available: the pending send completes.
CallUnblock(c) ==
    /\ req[c] = "blocked"
    /\ ~wdead
    /\ Len(chan) < ChannelCap
    /\ chan' = Append(chan, c)
    /\ cmdlog' = [cmdlog EXCEPT !.enqueued = Append(@, c)]
    /\ req' = [req EXCEPT ![c] = "waiting"]
    /\ UNCHANGED <<slot, running, attempt, wdead, reply, timer, waited, outcome>>
    /\ UNCHANGED nonWorkerVars

\* tx.send(cmd) on a channel whose receiver is gone: "send error".
CallSendError(c) ==
    /\ MayStart(c) \/ req[c] = "blocked"
    /\ slot = "ready"
    /\ wdead
    /\ Finish(c, "send_error")
    /\ UNCHANGED <<slot, chan, running, attempt, wdead, reply>>

\* Ok(Ok(res)) / Ok(Err(_)): the reply (or its sender's drop) is observed.
CallReply(c) ==
    /\ ReceiverAlive(c)
    /\ reply[c] # "empty"
    /\ Finish(c, reply[c])
    /\ UNCHANGED <<slot, chan, running, attempt, wdead, reply>>

\* Err(_elapsed): call_timeout has passed without a reply.
CallTimedOut(c) ==
    /\ ReceiverAlive(c)
    /\ reply[c] = "empty"
    /\ TimeoutDue(c)
    /\ Finish(c, "timeout")
    /\ UNCHANGED <<slot, chan, running, attempt, wdead, reply>>

\* rx.blocking_recv() yields the oldest command; its operation starts.
WorkerRecv ==
    /\ ~wdead
    /\ WorkerFree
    /\ chan # << >>
    /\ running' = running \cup {Recv(chan)}
    /\ attempt' = [attempt EXCEPT ![Recv(chan)] = 1]
    /\ chan' = Tail(chan)
    /\ cmdlog' = [cmdlog EXCEPT !.started = Append(@, Recv(chan))]
    /\ UNCHANGED <<slot, wdead, req, reply, timer, waited, outcome>>
    /\ UNCHANGED nonWorkerVars

\* retry_once: the invocation returns Ok; reply.send(Ok(..)).
InvokeOk(c) ==
    /\ c \in running
    /\ running' = running \ {c}
    /\ attempt' = [attempt EXCEPT ![c] = 0]
    /\ reply' = [reply EXCEPT ![c] = "ok"]
    /\ UNCHANGED <<slot, chan, wdead, req, timer, waited, outcome>>
    /\ UNCHANGED cmdlog
    /\ UNCHANGED nonWorkerVars

\* retry_once: the first invocation fails; after 200 ms the second starts.
InvokeRetry(c) ==
    /\ c \in running
    /\ attempt[c] = 1
    /\ attempt' = [attempt EXCEPT ![c] = 2]
    /\ UNCHANGED <<slot, chan, running, wdead, req, reply, timer, waited,
                   outcome>>
    /\ UNCHANGED cmdlog
    /\ UNCHANGED nonWorkerVars

\* retry_once: the second invocation fails too; reply.send(Err(..)).
InvokeFail(c) ==
    /\ c \in running
    /\ attempt[c] = 2
    /\ running' = running \ {c}
    /\ attempt' = [attempt EXCEPT ![c] = 0]
    /\ reply' = [reply EXCEPT ![c] = "err"]
    /\ UNCHANGED <<slot, chan, wdead, req, timer, waited, outcome>>
    /\ UNCHANGED cmdlog
    /\ UNCHANGED nonWorkerVars

InChan(c) == \E i \in 1..Len(chan) : chan[i] = c

\* The worker thread unwinds inside an operation: the command's reply sender
\* and the receiver (with every queued command) are dropped.
WorkerPanic ==
    /\ running # {}
    /\ wdead' = TRUE
    /\ running' = {}
    /\ reply' = [c \in Callers |->
                    IF c \in running \/ InChan(c) THEN "dropped" ELSE reply[c]]
    /\ chan' = << >>
    /\ attempt' = [c \in Callers |-> 0]
    /\ UNCHANGED <<slot, req, timer, waited, outcome>>
    /\ UNCHANGED cmdlog
    /\ UNCHANGED nonWorkerVars

Bump(n) == IF n > CallTimeout THEN n ELSE n + 1

\* The wall clock advances by one tick of call_timeout's scale.  A timeout
\* that is due fires, a send that has room completes and an idle worker
\* takes the command that is waiting for it, before it does.
Tick ==
    /\ \E c \in Callers : req[c] \in {"blocked", "waiting"}
    /\ ~(~wdead /\ WorkerFree /\ chan # << >>)
    /\ \A c \in Callers : req[c] = "waiting" => ~TimeoutDue(c)
    /\ \A c \in Callers :
           req[c] = "blocked" => (~wdead /\ Len(chan) >= ChannelCap)
    /\ timer' = [c \in Callers |->
                    IF req[c] = "waiting" THEN Bump(timer[c]) ELSE timer[c]]
    /\ waited' = [c \in Callers |->
                    IF req[c] \in {"blocked", "waiting"}
                    THEN Bump(waited[c]) ELSE waited[c]]
    /\ UNCHANGED <<slot, chan, running, attempt, wdead, req, reply, outcome>>
    /\ UNCHANGED cmdlog
    /\ UNCHANGED nonWorkerVars

WorkerNext ==
    \/ \E c \in Callers : CallLoadFail(c)
    \/ \E c \in Callers : CallEnqueue(c)
    \/ \E c \in Callers : CallBlock(c)
    \/ \E c \in Callers : CallUnblock(c)
    \/ \E c \in Callers : CallSendError(c)
    \/ \E c \in Callers : CallReply(c)
    \/ \E c \in Callers : CallTimedOut(c)
    \/ WorkerRecv
    \/ \E c \in Callers : InvokeOk(c)
    \/ \E c \in Callers : InvokeRetry(c)
    \/ \E c \in Callers : InvokeFail(c)
    \/ WorkerPanic
    \/ Tick

SpecWorker == Init /\ [][WorkerNext]_vars

(* C4: at most one operation of the plugin is in progress at any time; a   *)
(* command leaves the channel only when no operation is running.           *)
C4_SerialSandbox == Cardinality(running) <= 1

\* A retry is in progress while two more commands wait in the channel.
C4_Witness ==
    /\ \E c \in running : attempt[c] = 2
    /\ Len(chan) = ChannelCap

(* C5 as stated: no caller waits longer than call_timeout, counted from    *)
(* the moment it issued the call, for a result or a timeout error.         *)
C5_Original ==
    \A c \in Callers :
        waited[c] <= CallTimeout /\ outcome[c].total <= CallTimeout

(* C5 (amended): once the command is on the worker's channel the caller     *)
(* gets the reply within call_timeout of the enqueue or a timeout error    *)
(* when call_timeout has elapsed; the wait for channel capacity before the *)
(* enqueue is not bounded.                                                 *)
C5_ReplyOrTimeout ==
    \A c \in Callers :
        /\ req[c] = "waiting" => timer[c] <= CallTimeout
        /\ req[c] = "done" =>
               /\ outcome[c].kind \in
                      {"ok", "err", "dropped", "timeout", "load_error",
                       "send_error"}
               /\ outcome[c].at <= CallTimeout
               /\ outcome[c].kind = "timeout" => outcome[c].at = CallTimeout

\* One caller has its result, another its timeout error.
C5_Witness ==
    \E c, d \in Callers :
        /\ req[c] = "done" /\ outcome[c].kind = "ok" /\ outcome[c].at > 0
        /\ req[d] = "done" /\ outcome[d].kind = "timeout"

----------------------------------------------------------------------------
(* db.rs: the cache table.                                                 *)

\* A WHERE clause that also admits a row expiring exactly now.
CacheRowVisibleStale(row, key, now) == row.key = key /\ row.expires_at >= now

\* SELECT payload FROM search_cache WHERE key = ? AND expires_at > ?
CacheRowVisible(row, key, now) == row.key = key /\ row.expires_at > now

\* A lookup that finds nothing.
get_cache_none(table, key, now) == None

get_cache(table, key, now) ==
    LET hits == {r \in table : CacheRowVisible(r, key, now)}
    IN  IF hits = {} THEN None ELSE Some((CHOOSE r \in hits : TRUE).payload)

\* An insert that leaves an existing row alone (ON CONFLICT DO NOTHING).
put_cache_ignore(table, key, payload, expires_at) ==
    IF \E r \in table : r.key = key THEN table
    ELSE table \cup {[key |-> key, payload |-> payload, expires_at |-> expires_at]}

\* INSERT ... ON CONFLICT(key) DO UPDATE SET payload, expires_at
put_cache(table, key, payload, expires_at) ==
    {r \in table : r.key # key}
        \cup {[key |-> key, payload |-> payload, expires_at |-> expires_at]}


\* Storage::put_cache(key, payload, expires_at)
PutCache(key, payload, expires_at) ==
    /\ lastPut[key].n < MaxPuts
    /\ search_cache' = put_cache(search_cache, key, payload, expires_at)
    /\ lastPut' = [lastPut EXCEPT ![key] =
            [n |-> @.n + 1, payload |-> payload, expires_at |-> expires_at,
             back |-> \E r \in search_cache :
                          r.key = key /\ expires_at < r.expires_at]]
    /\ got' = NoGet
    /\ UNCHANGED nonCacheVars

\* Storage::get_cache(key, now)
GetCache(key, at) ==
    /\ got' = [called |-> TRUE, key |-> key, now |-> at,
               result |-> get_cache(search_cache, key, at)]
    /\ UNCHANGED <<search_cache, lastPut>>
    /\ UNCHANGED nonCacheVars

CacheNext ==
    \/ \E k \in CacheKeys, p \in CachePayloads, e \in Epochs : PutCache(k, p, e)
    \/ \E k \in CacheKeys, t \in Epochs : GetCache(k, t)

SpecCache == Init /\ [][CacheNext]_vars

----------------------------------------------------------------------------
(* C6: get_cache(key, now) returns a payload only if a row for key exists  *)
(* with expires_at > now, and that payload is the row's; when every row    *)
(* for key has expires_at <= now (or there is none) it returns None.       *)
C6_NoStaleRead ==
    got.called =>
        /\ got.result # None =>
               \E r \in search_cache :
                   /\ r.key = got.key
                   /\ r.expires_at > got.now
                   /\ got.result = Some(r.payload)
        /\ (\A r \in search_cache : r.key = got.key => r.expires_at <= got.now)
               => got.result = None

\* A read at now = expires_at of an existing row, answered None.
C6_Witness ==
    /\ got.called
    /\ got.result = None
    /\ \E r \in search_cache : r.key = got.key /\ r.expires_at = got.now

(* C7: after any sequence of put_cache calls on a key there is exactly one *)
(* row for it, holding the payload and expires_at of the last write (also  *)
(* when expires_at moved backward), and get_cache(key, now) with           *)
(* now < that expires_at returns the last written payload.                 *)
C7_LastWriteWins ==
    \A k \in CacheKeys :
        lastPut[k].n > 0 =>
            /\ Cardinality({r \in search_cache : r.key = k}) = 1
            /\ \A r \in search_cache :
                   r.key = k => /\ r.payload = lastPut[k].payload
                                /\ r.expires_at = lastPut[k].expires_at
            /\ (got.called /\ got.key = k /\ got.now < lastPut[k].expires_at)
                   => got.result = Some(lastPut[k].payload)

\* A key written twice, the second write lowering expires_at, then read.
C7_Witness ==
    \E k \in CacheKeys :
        /\ lastPut[k].n = 2
        /\ lastPut[k].back
        /\ got.called /\ got.key = k /\ got.now < lastPut[k].expires_at
        /\ got.result = Some(lastPut[k].payload)

----------------------------------------------------------------------------
(* dao.rs, mapping.rs, lib.rs: the identity tables.                        *)

\* mapping.rs kind_str
kind_str(mt) ==
    IF mt = Manga THEN "manga" ELSE IF mt = Anime THEN "anime" ELSE "other"

series_insert_from_media(id, media) ==
    [id |-> id, kind |-> kind_str(media.mediatype), title |-> media.title,
     description |-> media.description, cover_url |-> media.cover_url]

series_source_from(series_id, source_id, external_id) ==
    [series_id |-> series_id, source_id |-> source_id,
     external_id |-> external_id]

\* INSERT INTO sources ... ON CONFLICT(id) DO UPDATE SET version
upsert_source(table, src) == {r \in table : r.id # src.id} \cup {src}

\* INSERT INTO series ... ON CONFLICT(id) DO UPDATE SET <every other column>
upsert_series(table, s) == {r \in table : r.id # s.id} \cup {s}

\* INSERT INTO series_sources ... ON CONFLICT(series_id, source_id,
\* external_id) DO UPDATE SET last_synced_at: a row per distinct triple.
upsert_series_source(table, ss) == table \cup {ss}

\* A lookup that never finds a mapping.
find_series_id_never(table, source_id, external_id) == {None}

\* SELECT series_id FROM series_sources WHERE source_id = ? AND
\* external_id = ? LIMIT 1: the results the query can produce (without an
\* ORDER BY, any matching row may be the one returned).
find_series_id_by_source_external(table, source_id, external_id) ==
    LET rows == {r \in table :
                    r.source_id = source_id /\ r.external_id = external_id}
    IN  IF rows = {} THEN {None} ELSE {Some(r.series_id) : r \in rows}

----------------------------------------------------------------------------
(* lib.rs: get_or_create_series_id, run by tasks that share the database.  *)
(* Each await of a DAO call is a step; the pool serves the statements of   *)
(* different tasks in any order, and no transaction spans them.            *)

\* A task calls get_or_create_series_id(source_id, &m.id, m).
RaceCall(t, source_id, media) ==
    /\ rpc[t] \in {"idle", "done"}
    /\ rpc' = [rpc EXCEPT ![t] = "find"]
    /\ rarg' = [rarg EXCEPT ![t] = Some([source_id |-> source_id,
                                         media |-> media])]
    /\ rnew' = [rnew EXCEPT ![t] = None]
    /\ rret' = [rret EXCEPT ![t] = None]
    /\ UNCHANGED <<cacheVars, workerVars, sideVars, identVars, aggVars>>

\* find_series_id_by_source_external(..).await?: an existing mapping is
\* returned at once.
RaceFind(t) ==
    /\ rpc[t] = "find"
    /\ \E found \in find_series_id_by_source_external(
                         series_sources, rarg[t][1].source_id,
                         rarg[t][1].media.id) :
           IF found # None
           THEN /\ rret' = [rret EXCEPT ![t] = found]
                /\ rpc' = [rpc EXCEPT ![t] = "done"]
           ELSE /\ rpc' = [rpc EXCEPT ![t] = "series"]
                /\ UNCHANGED rret
    /\ UNCHANGED <<rarg, rnew>>
    /\ UNCHANGED <<cacheVars, workerVars, sideVars, identVars, aggVars>>

\* let new_id = Uuid::new_v4(); upsert_series(&s).await?
RaceUpsertSeries(t) ==
    /\ rpc[t] = "series"
    /\ uuid_count' = uuid_count + 1
    /\ rnew' = [rnew EXCEPT ![t] = Some(Uuid(uuid_count + 1))]
    /\ series' = upsert_series(series,
           series_insert_from_media(Uuid(uuid_count + 1), rarg[t][1].media))
    /\ rpc' = [rpc EXCEPT ![t] = "link"]
    /\ UNCHANGED <<sources, series_sources, rarg, rret>>
    /\ UNCHANGED <<cacheVars, workerVars, sideVars, aggVars>>

\* upsert_series_source(&link).await?; Ok(new_id)
RaceUpsertSeriesSource(t) ==
    /\ rpc[t] = "link"
    /\ series_sources' = upsert_series_source(series_sources,
           series_source_from(rnew[t][1], rarg[t][1].source_id,
                              rarg[t][1].media.id))
    /\ rret' = [rret EXCEPT ![t] = rnew[t]]
    /\ rpc' = [rpc EXCEPT ![t] = "done"]
    /\ UNCHANGED <<sources, series, uuid_count, rarg, rnew>>
    /\ UNCHANGED <<cacheVars, workerVars, sideVars, aggVars>>

\* The media the tasks ask about: a search result and a unit fetch's stub.
RaceMedias == {M1, M2, Media("m1", Manga, "", None, None)}

RaceNext ==
    \/ \E t \in Tasks, m \in RaceMedias : RaceCall(t, "p1", m)
    \/ \E t \in Tasks : RaceFind(t)
    \/ \E t \in Tasks : RaceUpsertSeries(t)
    \/ \E t \in Tasks : RaceUpsertSeriesSource(t)

SpecRace == Init /\ [][RaceNext]_vars

\* The series_sources rows of one (source_id, external_id) pair.
MappingsOf(source_id, external_id) ==
    {r \in series_sources :
        r.source_id = source_id /\ r.external_id = external_id}

(* C2: when tasks have run get_or_create_series_id concurrently for one     *)
(* (source, external_id) pair and all of them have returned, exactly one   *)
(* series_sources row maps the pair.                                       *)
C2_OneFinalMapping ==
    \A t, u \in Tasks :
        ( /\ t # u
          /\ rpc[t] = "done" /\ rpc[u] = "done"
          /\ rarg[t][1].source_id = rarg[u][1].source_id
          /\ rarg[t][1].media.id = rarg[u][1].media.id )
        => Cardinality(MappingsOf(rarg[t][1].source_id,
                                  rarg[t][1].media.id)) = 1

----------------------------------------------------------------------------
(* plugins/plugin.rs: what a plugin's operations hand back to the worker.  *)

\* str::to_ascii_lowercase on a host, label by label.
ToAsciiLowercaseHost(host) ==
    [i \in 1..Len(host) |->
        IF host[i] = "CDN" THEN "cdn"
        ELSE IF host[i] = "Example" THEN "example"
        ELSE IF host[i] = "COM" THEN "com" ELSE host[i]]

\* A suffix test that no host passes.
EndsWithDotNever(host, d) == FALSE

\* host.ends_with(".d"): d is a proper suffix of the host's labels.
EndsWithDot(host, d) ==
    /\ Len(host) > Len(d)
    /\ SubSeq(host, Len(host) - Len(d) + 1, Len(host)) = d

\* An allow-list check that lets every URL through.
url_allowed_any(allowed, url) == TRUE

\* Plugin::url_allowed
url_allowed(allowed, url) ==
    IF allowed = None THEN TRUE
    ELSE LET list == allowed[1] IN
         IF list = << >> THEN FALSE
         ELSE IF url.scheme = "" THEN FALSE
         ELSE IF url.scheme \notin {"http", "https"} THEN FALSE
         ELSE IF url.host = << >> THEN FALSE
         ELSE LET host == ToAsciiLowercaseHost(url.host) IN
              \E i \in 1..Len(list) :
                 IF list[i].wild
                 THEN host = list[i].host \/ EndsWithDot(host, list[i].host)
                 ELSE host = list[i].host

\* if let Some(u) = &x { if !self.url_allowed(u) { x = None } }
NullIfDisallowed(allowed, x) ==
    IF x # None /\ ~url_allowed(allowed, x[1]) THEN None ELSE x

\* title.starts_with("HTTP Error:")
IsHttpErrorTitle(title) == title = "HTTP Error: 500"

\* Plugin::fetch_media_list: res is the outcome of retry_once, Ok(list) as
\* Some(list) and Err as None.
fetch_media_list(allowed, res) ==
    IF allowed = Some(<< >>) THEN << >>
    ELSE LET KeepMedia(m) == m.id # "error" /\ ~IsHttpErrorTitle(m.title)
             list == IF res = None THEN << >> ELSE SelectSeq(res[1], KeepMedia)
         IN  [i \in 1..Len(list) |->
                 [list[i] EXCEPT
                     !.url = NullIfDisallowed(allowed, @),
                     !.cover_url = NullIfDisallowed(allowed, @)]]

\* Plugin::fetch_units
fetch_units(allowed, res) ==
    IF allowed = Some(<< >>) THEN << >>
    ELSE LET units == IF res = None THEN << >> ELSE res[1]
         IN  [i \in 1..Len(units) |->
                 [units[i] EXCEPT !.url = NullIfDisallowed(allowed, @)]]

\* Plugin::fetch_assets
fetch_assets(allowed, res) ==
    IF allowed = Some(<< >>) THEN << >>
    ELSE LET KeepAsset(a) == url_allowed(allowed, a.url)
             assets == IF res = None THEN << >> ELSE res[1]
         IN  SelectSeq(assets, KeepAsset)

----------------------------------------------------------------------------
(* types.rs, lib.rs: cache payloads and keys.                              *)

\* types.rs media_to_cache: the mediatype becomes a string.
media_to_cache(m) ==
    [m EXCEPT !.mediatype =
        IF @ = Manga THEN <<"manga">>
        ELSE IF @ = Anime THEN <<"anime">>
        ELSE <<"other:", @[2]>>]

\* types.rs media_from_cache
media_from_cache(mc) ==
    [mc EXCEPT !.mediatype =
        IF @ = <<"manga">> THEN Manga
        ELSE IF @ = <<"anime">> THEN Anime
        ELSE IF @[1] = "other:" THEN Other(@[2])
        ELSE Other(@)]

\* serde_json::to_string(&results.iter().map(media_to_cache).collect())
MediaPayload(results) == [i \in 1..Len(results) |-> media_to_cache(results[i])]

\* Touring::try_deserialize_media_cache: an anime search marks every
\* cached media as Anime.
try_deserialize_media_cache(payload, media_type) ==
    Some([i \in 1..Len(payload) |->
            IF media_type = Anime
            THEN [media_from_cache(payload[i]) EXCEPT !.mediatype = Anime]
            ELSE media_from_cache(payload[i])])

\* char::is_whitespace: the Unicode White_Space property.  "U+3000" stands
\* for the one character IDEOGRAPHIC SPACE, "U+00C9" for the letter E acute.
IsWhitespace(ch) == ch \in {" ", "\t", "U+3000"}

\* char::to_ascii_lowercase
ToAsciiLowercase(ch) ==
    IF ch = "A" THEN "a" ELSE IF ch = "B" THEN "b"
    ELSE IF ch = "S" THEN "s" ELSE IF ch = "T" THEN "t" ELSE ch

RECURSIVE TrimStart(_)
TrimStart(q) ==
    IF q # << >> /\ IsWhitespace(Head(q)) THEN TrimStart(Tail(q)) ELSE q

RECURSIVE TrimEnd(_)
TrimEnd(q) ==
    IF q # << >> /\ IsWhitespace(q[Len(q)])
    THEN TrimEnd(SubSeq(q, 1, Len(q) - 1)) ELSE q

\* A loop that pushes every character as it is.
CollapseSpacesKeep(q, last_space) == q

\* The loop of norm_query: a run of whitespace becomes one space.
RECURSIVE CollapseSpaces(_, _)
CollapseSpaces(q, last_space) ==
    IF q = << >> THEN << >>
    ELSE IF IsWhitespace(Head(q))
         THEN IF last_space THEN CollapseSpaces(Tail(q), TRUE)
              ELSE <<" ">> \o CollapseSpaces(Tail(q), TRUE)
         ELSE <<Head(q)>> \o CollapseSpaces(Tail(q), FALSE)

\* lib.rs norm_query
norm_query(q) ==
    LET trimmed == TrimEnd(TrimStart(q))
        lowered == [i \in 1..Len(trimmed) |-> ToAsciiLowercase(trimmed[i])]
    IN  CollapseSpaces(lowered, FALSE)

\* A key that spells every kind "manga".
SearchKeyMangaOnly(source, kind, norm) == <<source, "search", "manga", norm>>

\* format!("{}|search|manga|{}", source, norm) and its anime twin
SearchKey(source, kind, norm) ==
    <<source, "search", IF kind = Manga THEN "manga" ELSE "anime", norm>>

\* format!("all|pages|{}", id)
PagesKey(id) == <<"all", "pages", id>>

----------------------------------------------------------------------------
(* lib.rs: the aggregator's handlers, run one at a time.  A handler's loop *)
(* over the plugins is a sequence of steps, one per plugin; no other       *)
(* handler runs between them.                                              *)

\* The database as a handler's writes thread through it; made collects the
\* (source_id, external_id) pairs for which a series row was created.
Db == [sources |-> sources, series |-> series,
       series_sources |-> series_sources, uuid_count |-> uuid_count,
       made |-> op.made, ret |-> ""]

\* Touring::get_or_create_series_id, with the database handed through.
get_or_create_series_id(db, source_id, external_id, media) ==
    LET existing == CHOOSE r \in find_series_id_by_source_external(
                        db.series_sources, source_id, external_id) : TRUE
        new_id == Uuid(db.uuid_count + 1)
    IN  IF existing # None THEN [db EXCEPT !.ret = existing[1]]
        ELSE [db EXCEPT
                !.series = upsert_series(@,
                               series_insert_from_media(new_id, media)),
                !.series_sources = upsert_series_source(@,
                               series_source_from(new_id, source_id,
                                                  external_id)),
                !.uuid_count = @ + 1,
                !.made = @ \cup {<<source_id, external_id>>},
                !.ret = new_id]

\* for m in &list { upsert_source(&source, "unknown");
\*                  get_or_create_series_id(&source, &m.id, m) }
RECURSIVE PersistMedias(_, _, _)
PersistMedias(db, source, list) ==
    IF list = << >> THEN db
    ELSE PersistMedias(
             get_or_create_series_id(
                 [db EXCEPT !.sources = upsert_source(@,
                                [id |-> source, version |-> "unknown"])],
                 source, Head(list).id, Head(list)),
             source, Tail(list))

\* The writes of a handler reach the tables.
Commit(db) ==
    /\ sources' = db.sources
    /\ series' = db.series
    /\ series_sources' = db.series_sources
    /\ uuid_count' = db.uuid_count

\* for m in list { all.push((source.clone(), m)) }
Tagged(source, list) == [i \in 1..Len(list) |-> <<source, list[i]>>]

Idle == op.status # "run"

\* search_manga_cached_with_sources / search_anime_cached_with_sources is
\* called: norm, now and the plugin list are read.
SearchBegin(kind, query, refresh) ==
    /\ Idle
    /\ op_count < MaxOps
    /\ op_count' = op_count + 1
    /\ op' = [NoOp EXCEPT !.name = "search", !.status = "run", !.kind = kind,
                          !.arg = query, !.refresh = refresh, !.now = clock,
                          !.cache0 = {r \in search_cache :
                                         r.key[2] = "search"}]
    /\ UNCHANGED <<allowed_hosts, slots, clock, chapters, episodes, streams,
                   pages_by>>
    /\ UNCHANGED <<cacheVars, workerVars, sideVars, identVars, raceVars>>

SearchSource == slots[op.i]
SearchCached ==
    IF op.refresh THEN None
    ELSE get_cache(search_cache,
                   SearchKey(SearchSource, op.kind, norm_query(op.arg)), op.now)
SearchRunning ==
    op.name = "search" /\ op.status = "run" /\ op.i <= Len(slots)

\* A search that returns the error of a failed database write.
WriteIgnoredNever(written) == written

\* let _ = self.db.put_cache(..).await; let _ = self.upsert_source(..).await;
\* let _ = self.get_or_create_series_id(..).await: the Result is dropped.
WriteIgnored(written) == TRUE

\* The loop body for the next source, its cache entry being live; ident_ok
\* tells whether the identity writes reach the database.
SearchHitWith(ident_ok) ==
    /\ SearchRunning
    /\ SearchCached # None
    /\ LET list == try_deserialize_media_cache(SearchCached[1], op.kind)[1]
           db == IF ident_ok THEN PersistMedias(Db, SearchSource, list) ELSE Db
       IN  /\ Commit(db)
           /\ op' = IF WriteIgnored(ident_ok)
                    THEN [op EXCEPT !.i = @ + 1,
                                    !.hits = @ \cup {SearchSource},
                                    !.made = db.made,
                                    !.faults = IF ident_ok THEN @
                                               ELSE @ \cup {"identity"},
                                    !.all = @ \o Tagged(SearchSource, list)]
                    ELSE [op EXCEPT !.status = "err",
                                    !.faults = @ \cup {"identity"}]
    /\ UNCHANGED <<allowed_hosts, slots, clock, chapters, episodes, streams,
                   pages_by, op_count>>
    /\ UNCHANGED <<cacheVars, workerVars, sideVars, raceVars>>

\* The loop body on a hit, the database taking every write.
SearchHit == SearchHitWith(TRUE)

\* An expiry that has come when it is written.
SearchExpiryNow(now) == now

\* now + self.search_ttl_secs
SearchExpiry(now) == now + SearchTtl

\* The loop body for the next source on a miss or a refresh: the plugin
\* replies, the reply is cached and its media get their series.
\* cache_ok and ident_ok tell whether put_cache and the identity writes
\* reach the database.
SearchMissWith(res, cache_ok, ident_ok) ==
    /\ SearchRunning
    /\ SearchCached = None
    /\ LET list == fetch_media_list(allowed_hosts[SearchSource], res)
           db == IF ident_ok THEN PersistMedias(Db, SearchSource, list) ELSE Db
           faults == (IF cache_ok THEN {} ELSE {"cache"})
                         \cup (IF ident_ok THEN {} ELSE {"identity"})
       IN  /\ search_cache' =
                   IF cache_ok
                   THEN put_cache(search_cache,
                            SearchKey(SearchSource, op.kind, norm_query(op.arg)),
                            MediaPayload(list), SearchExpiry(op.now))
                   ELSE search_cache
           /\ Commit(db)
           /\ op' = IF WriteIgnored(cache_ok /\ ident_ok)
                    THEN [op EXCEPT !.i = @ + 1,
                                    !.invoked = Append(@, SearchSource),
                                    !.made = db.made,
                                    !.faults = @ \cup faults,
                                    !.all = @ \o Tagged(SearchSource, list)]
                    ELSE [op EXCEPT !.status = "err",
                                    !.invoked = Append(@, SearchSource),
                                    !.faults = @ \cup faults]
    /\ UNCHANGED <<allowed_hosts, slots, clock, chapters, episodes, streams,
                   pages_by, op_count>>
    /\ UNCHANGED <<got, lastPut>>
    /\ UNCHANGED <<workerVars, sideVars, raceVars>>

\* The loop body on a miss, the database taking every write.
SearchMiss(res) == SearchMissWith(res, TRUE, TRUE)

\* search_manga_for(..) returns Err (the slot did not load, the send
\* failed, the reply was dropped or timed out): `?` returns it.
SearchFail(failure) ==
    /\ SearchRunning
    /\ SearchCached = None
    /\ failure \in CallFailures
    /\ op' = [op EXCEPT !.status = "err",
                        !.failed = @ \cup {SearchSource},
                        !.invoked = Append(@, SearchSource)]
    /\ UNCHANGED <<allowed_hosts, slots, clock, chapters, episodes, streams,
                   pages_by, op_count>>
    /\ UNCHANGED <<cacheVars, workerVars, sideVars, identVars, raceVars>>

\* Ok(all)
SearchReturn ==
    /\ op.name = "search" /\ op.status = "run" /\ op.i > Len(slots)
    /\ op' = [op EXCEPT !.status = "ok"]
    /\ UNCHANGED <<allowed_hosts, slots, clock, chapters, episodes, streams,
                   pages_by, op_count>>
    /\ UNCHANGED <<cacheVars, workerVars, sideVars, identVars, raceVars>>

----------------------------------------------------------------------------
(* plugins.rs: the first-hit loops get_*_with_source, one plugin per step. *)

\* The loop is at a plugin it has yet to ask.
FirstHitRunning ==
    /\ op.name \in {"units", "images", "streams"}
    /\ op.status = "run"
    /\ op.source = None
    /\ op.i <= Len(slots)

\* The loop has returned: with the first non-empty list, or with nothing.
FirstHitDone ==
    /\ op.name \in {"units", "images", "streams"}
    /\ op.status = "run"
    /\ op.source # None \/ op.i > Len(slots)

\* A loop that never returns early: it asks every plugin and keeps the
\* last non-empty list.
FirstHitAfterKeepGoing(list) ==
    [op EXCEPT !.invoked = Append(@, slots[op.i]),
               !.lists = Append(@, list),
               !.i = @ + 1,
               !.all = IF list = << >> THEN @ ELSE list]

\* Ok(Ok(Ok(list))): the kind-filtered list is returned with the plugin's
\* name if it is non-empty; otherwise the loop goes on.
FirstHitAfter(list) ==
    [op EXCEPT !.invoked = Append(@, slots[op.i]),
               !.lists = Append(@, list),
               !.i = IF list = << >> THEN @ + 1 ELSE @,
               !.source = IF list = << >> THEN None ELSE Some(slots[op.i]),
               !.all = list]

\* get_manga_chapters_with_source / get_anime_episodes_with_source: the
\* plugin's fetch_units replies.
UnitsReply(res) ==
    /\ FirstHitRunning
    /\ op.name = "units"
    /\ LET Wanted(u) == u.kind = IF op.kind = Manga THEN "Chapter" ELSE "Episode"
           units == fetch_units(allowed_hosts[slots[op.i]], res)
       IN  op' = FirstHitAfter(SelectSeq(units, Wanted))
    /\ UNCHANGED <<allowed_hosts, slots, clock, chapters, episodes, streams,
                   pages_by, op_count>>
    /\ UNCHANGED <<cacheVars, workerVars, sideVars, identVars, raceVars>>

\* get_chapter_images_with_source / get_episode_streams_with_source: the
\* plugin's fetch_assets replies.
AssetsReply(res) ==
    /\ FirstHitRunning
    /\ op.name \in {"images", "streams"}
    /\ LET IsPage(a) == a.kind \in {"Page", "Image"}
           IsVideo(a) == a.kind = "Video"
           assets == fetch_assets(allowed_hosts[slots[op.i]], res)
           pages == SelectSeq(assets, IsPage)
       IN  op' = FirstHitAfter(
                     IF op.name = "images"
                     THEN [j \in 1..Len(pages) |-> pages[j].url]
                     ELSE SelectSeq(assets, IsVideo))
    /\ UNCHANGED <<allowed_hosts, slots, clock, chapters, episodes, streams,
                   pages_by, op_count>>
    /\ UNCHANGED <<cacheVars, workerVars, sideVars, identVars, raceVars>>

\* A loop that gives up at the first plugin that fails: Err(e).
FirstHitFailAborts(failure) ==
    /\ FirstHitRunning
    /\ failure \in CallFailures
    /\ op' = [op EXCEPT !.invoked = Append(@, slots[op.i]),
                        !.failed = @ \cup {slots[op.i]},
                        !.status = "err"]
    /\ UNCHANGED <<allowed_hosts, slots, clock, chapters, episodes, streams,
                   pages_by, op_count>>
    /\ UNCHANGED <<cacheVars, workerVars, sideVars, identVars, raceVars>>

\* The slot does not load, the send fails, the reply is dropped or the
\* call times out: warn and continue with the next plugin.
FirstHitFail(failure) ==
    /\ FirstHitRunning
    /\ failure \in CallFailures
    /\ op' = [op EXCEPT !.invoked = Append(@, slots[op.i]),
                        !.lists = Append(@, << >>),
                        !.failed = @ \cup {slots[op.i]},
                        !.i = @ + 1]
    /\ UNCHANGED <<allowed_hosts, slots, clock, chapters, episodes, streams,
                   pages_by, op_count>>
    /\ UNCHANGED <<cacheVars, workerVars, sideVars, identVars, raceVars>>

----------------------------------------------------------------------------
(* lib.rs: unit fetches.                                                   *)

\* mapping.rs chapter_insert_from_unit (and the EpisodeInsert literal)
chapter_insert_from_unit(id, series_id, source_id, u) ==
    [id |-> id, series_id |-> series_id, source_id |-> source_id,
     external_id |-> u.id,
     number_text |-> u.number_text,
     number_num |-> u.number,
     title |-> IF u.title = "" THEN None ELSE Some(u.title),
     lang |-> u.lang,
     group |-> u.group,
     published_at |-> u.published_at,
     upload_group |-> u.upload_group]

SameUnitKey(r, c) ==
    /\ r.series_id = c.series_id
    /\ r.source_id = c.source_id
    /\ r.external_id = c.external_id

\* An upsert whose conflict arm takes every column from the new row.
upsert_chapter_all_columns(table, c) ==
    {r \in table : ~SameUnitKey(r, c)} \cup {c}

\* INSERT INTO chapters ... ON CONFLICT(series_id, source_id, external_id)
\* DO UPDATE SET id, number_text, number_num, title, lang, volume,
\* published_at = excluded.<the same>: upload_group is not in the SET list
\* and keeps the stored value.
upsert_chapter(table, c) ==
    LET old == {r \in table : SameUnitKey(r, c)}
    IN  IF old = {} THEN table \cup {c}
        ELSE (table \ old)
                 \cup {[c EXCEPT !.upload_group = r.upload_group] : r \in old}

\* A lookup that never finds the stored row, so that every fetch hands the
\* unit a new id.
find_chapter_id_never(table, series_id, source_id, external_id) == None

\* SELECT id FROM chapters WHERE series_id = ? AND source_id = ? AND
\* external_id = ? LIMIT 1
find_chapter_id_by_mapping(table, series_id, source_id, external_id) ==
    LET rows == {r \in table :
                    /\ r.series_id = series_id
                    /\ r.source_id = source_id
                    /\ r.external_id = external_id}
    IN  IF rows = {} THEN None ELSE Some((CHOOSE r \in rows : TRUE).id)

\* for u in units { find_chapter_id_by_mapping; upsert_chapter }: the
\* table and the ids handed out, after the loop.
RECURSIVE PersistUnits(_, _, _, _, _)
PersistUnits(table, count, series_id, source_id, units) ==
    IF units = << >> THEN [table |-> table, uuid_count |-> count]
    ELSE LET u == Head(units)
             existing == find_chapter_id_by_mapping(table, series_id,
                                                    source_id, u.id)
         IN  IF existing # None
             THEN PersistUnits(
                      upsert_chapter(table, chapter_insert_from_unit(
                          existing[1], series_id, source_id, u)),
                      count, series_id, source_id, Tail(units))
             ELSE PersistUnits(
                      upsert_chapter(table, chapter_insert_from_unit(
                          Uuid(count + 1), series_id, source_id, u)),
                      count + 1, series_id, source_id, Tail(units))

\* get_manga_chapters(id) / get_anime_episodes(id) is called.
UnitsBegin(kind, id) ==
    /\ Idle
    /\ op_count < MaxOps
    /\ op_count' = op_count + 1
    /\ op' = [NoOp EXCEPT !.name = "units", !.status = "run", !.kind = kind,
                          !.arg = id, !.now = clock]
    /\ UNCHANGED <<allowed_hosts, slots, clock, chapters, episodes, streams,
                   pages_by>>
    /\ UNCHANGED <<cacheVars, workerVars, sideVars, identVars, raceVars>>

\* The first-hit loop has returned: with a source, the series of a stub
\* media and the units' rows are stored; Ok(units).
UnitsReturn ==
    /\ FirstHitDone
    /\ op.name = "units"
    /\ IF op.source = None
       THEN /\ op' = [op EXCEPT !.status = "ok"]
            /\ UNCHANGED <<identVars, chapters, episodes>>
       ELSE LET source_id == op.source[1]
                media_stub == Media(op.arg, op.kind, "", None, None)
                db == get_or_create_series_id(Db, source_id, op.arg, media_stub)
                IsUnit(u) == u.kind = IF op.kind = Manga THEN "Chapter"
                                                          ELSE "Episode"
                out == PersistUnits(
                           IF op.kind = Manga THEN chapters ELSE episodes,
                           db.uuid_count, db.ret, source_id,
                           SelectSeq(op.all, IsUnit))
            IN  /\ Commit([db EXCEPT !.uuid_count = out.uuid_count])
                /\ chapters' = IF op.kind = Manga THEN out.table ELSE chapters
                /\ episodes' = IF op.kind = Manga THEN episodes ELSE out.table
                /\ op' = [op EXCEPT !.status = "ok", !.made = db.made]
    /\ UNCHANGED <<allowed_hosts, slots, clock, streams, pages_by, op_count>>
    /\ UNCHANGED <<cacheVars, workerVars, sideVars, raceVars>>

----------------------------------------------------------------------------
(* lib.rs: chapter images and episode streams.                             *)

\* SELECT external_id FROM chapters WHERE id = ? LIMIT 1, else the id
\* itself; resolve_episode_external_id is its twin.
resolve_chapter_external_id(table, id) ==
    LET rows == {r \in table : r.id = id}
    IN  IF rows = {} THEN id ELSE (CHOOSE r \in rows : TRUE).external_id

\* SELECT id FROM episodes WHERE source_id = ? AND external_id = ? LIMIT 1
find_episode_id_by_source_external(table, source_id, external_id) ==
    LET rows == {r \in table :
                    r.source_id = source_id /\ r.external_id = external_id}
    IN  IF rows = {} THEN None ELSE Some((CHOOSE r \in rows : TRUE).id)

\* INSERT INTO streams(episode_id, url, ..) ... ON CONFLICT DO NOTHING
upsert_streams(table, episode_id, vids) ==
    table \cup {[episode_id |-> episode_id, url |-> vids[j].url] :
                    j \in 1..Len(vids)}

\* The payload the cache holds for the chapter, under the id as given or
\* else under the external id: the row that answers, if one does.
PagesHit(id, external_id, at) ==
    LET orig == {r \in search_cache :
                    CacheRowVisible(r, PagesKey(id), at)}
        ext == {r \in search_cache :
                    CacheRowVisible(r, PagesKey(external_id), at)}
    IN  IF orig # {} THEN orig ELSE ext

\* The plugin recorded for a pages key.
PagesBy(key) ==
    LET rows == {r \in pages_by : r.key = key}
    IN  IF rows = {} THEN None ELSE (CHOOSE r \in rows : TRUE).by

SetPagesBy(table, key, by) ==
    {r \in table : r.key # key} \cup {[key |-> key, by |-> by]}

\* The chapter ids a caller can hold: external ones and stored canonical ones.
KnownChapterIds == ChapterIds \cup {r.id : r \in chapters}
KnownEpisodeIds == EpisodeIds \cup {r.id : r \in episodes}

UnitIds ==
    ChapterIds \cup EpisodeIds \cup {UuidPool[n] : n \in 1..Len(UuidPool)}

\* get_chapter_images_with_refresh(id, false) answered from the cache.
ImagesCached(id) ==
    /\ id \in KnownChapterIds
    /\ Idle
    /\ op_count < MaxOps
    /\ op_count' = op_count + 1
    /\ LET external_id == resolve_chapter_external_id(chapters, id)
           hit == PagesHit(id, external_id, clock)
       IN  /\ hit # {}
           /\ \E r \in hit :
                  op' = [NoOp EXCEPT !.name = "images", !.status = "ok",
                                    !.arg = id, !.now = clock,
                                    !.external_id = external_id,
                                    !.hits = {r.key},
                                    !.source = PagesBy(r.key),
                                    !.all = r.payload]
    /\ UNCHANGED <<allowed_hosts, slots, clock, chapters, episodes, streams,
                   pages_by>>
    /\ UNCHANGED <<cacheVars, workerVars, sideVars, identVars, raceVars>>

\* get_chapter_images_with_refresh(id, refresh) on a miss or a refresh:
\* the plugins are asked with the id as given first.
ImagesBegin(id, refresh) ==
    /\ id \in KnownChapterIds
    /\ Idle
    /\ op_count < MaxOps
    /\ op_count' = op_count + 1
    /\ LET external_id == resolve_chapter_external_id(chapters, id)
       IN  /\ refresh \/ PagesHit(id, external_id, clock) = {}
           /\ op' = [NoOp EXCEPT !.name = "images", !.status = "run",
                                 !.arg = id, !.refresh = refresh,
                                 !.now = clock, !.try_id = id,
                                 !.external_id = external_id]
    /\ UNCHANGED <<allowed_hosts, slots, clock, chapters, episodes, streams,
                   pages_by>>
    /\ UNCHANGED <<cacheVars, workerVars, sideVars, identVars, raceVars>>

\* The first attempt returned no URL and the external id is another id:
\* the plugins are asked again, with the external id.
ImagesRetry ==
    /\ FirstHitDone
    /\ op.name = "images"
    /\ op.source = None
    /\ op.try_id # op.external_id
    /\ op' = [op EXCEPT !.try_id = op.external_id, !.i = 1,
                        !.invoked = << >>, !.lists = << >>,
                        !.failed = {}]
    /\ UNCHANGED <<allowed_hosts, slots, clock, chapters, episodes, streams,
                   pages_by, op_count>>
    /\ UNCHANGED <<cacheVars, workerVars, sideVars, identVars, raceVars>>

\* Write-through into both keys; Ok(urls).
ImagesReturn ==
    /\ FirstHitDone
    /\ op.name = "images"
    /\ op.source # None \/ op.try_id = op.external_id
    /\ search_cache' =
           put_cache(put_cache(search_cache, PagesKey(op.external_id),
                               op.all, op.now + PagesTtl),
                     PagesKey(op.arg), op.all, op.now + PagesTtl)
    /\ pages_by' = SetPagesBy(SetPagesBy(pages_by, PagesKey(op.external_id),
                                         op.source),
                              PagesKey(op.arg), op.source)
    /\ op' = [op EXCEPT !.status = "ok"]
    /\ UNCHANGED <<allowed_hosts, slots, clock, chapters, episodes, streams,
                   op_count>>
    /\ UNCHANGED <<got, lastPut>>
    /\ UNCHANGED <<workerVars, sideVars, identVars, raceVars>>

\* get_episode_streams(id) is called: the external id is resolved.
StreamsBegin(id) ==
    /\ id \in KnownEpisodeIds
    /\ Idle
    /\ op_count < MaxOps
    /\ op_count' = op_count + 1
    /\ op' = [NoOp EXCEPT !.name = "streams", !.status = "run", !.arg = id,
                          !.now = clock,
                          !.external_id =
                              resolve_chapter_external_id(episodes, id)]
    /\ UNCHANGED <<allowed_hosts, slots, clock, chapters, episodes, streams,
                   pages_by>>
    /\ UNCHANGED <<cacheVars, workerVars, sideVars, identVars, raceVars>>

\* The streams of a stored episode are kept; Ok(vids).
StreamsReturn ==
    /\ FirstHitDone
    /\ op.name = "streams"
    /\ LET canonical ==
               IF op.source = None THEN None
               ELSE find_episode_id_by_source_external(
                        episodes, op.source[1], op.external_id)
       IN  streams' = IF canonical = None THEN streams
                      ELSE upsert_streams(streams, canonical[1], op.all)
    /\ op' = [op EXCEPT !.status = "ok"]
    /\ UNCHANGED <<allowed_hosts, slots, clock, chapters, episodes, pages_by,
                   op_count>>
    /\ UNCHANGED <<cacheVars, workerVars, sideVars, identVars, raceVars>>

----------------------------------------------------------------------------
(* plugins.rs: the plugin list.                                            *)

\* a.name().cmp(b.name()) is Less
NameRank(name) == CHOOSE i \in 1..Len(NameOrder) : NameOrder[i] = name
NameLess(a, b) == NameRank(a) < NameRank(b)

RECURSIVE InsertByName(_, _)
InsertByName(sorted, name) ==
    IF sorted = << >> THEN <<name>>
    ELSE IF NameLess(name, Head(sorted)) THEN <<name>> \o sorted
         ELSE <<Head(sorted)>> \o InsertByName(Tail(sorted), name)

\* self.slots.sort_by(|a, b| a.name().cmp(b.name()))
RECURSIVE sort_by_name(_)
sort_by_name(names) ==
    IF names = << >> THEN << >>
    ELSE InsertByName(sort_by_name(Tail(names)), Head(names))

\* Discovery that takes every stem with an artifact.
RegisteredAnyArtifact(dir) ==
    {f[1] : f \in {g \in dir : g[2] \in {"wasm", "cwasm"}}}

\* The stems of dir that have an artifact and a sibling <stem>.toml.
Registered(dir) ==
    {f[1] : f \in {g \in dir : g[2] \in {"wasm", "cwasm"}
                                 /\ <<g[1], "toml">> \in dir}}

\* The orders in which a HashMap may iterate over the names.
IterationOrders(names) ==
    {o \in [1..Cardinality(names) -> names] :
        \A i, j \in 1..Cardinality(names) : i # j => o[i] # o[j]}

\* PluginManager::load_plugins_from_directory, at start-up.
LoadPlugins(dir) ==
    /\ Idle
    /\ op_count = 0
    /\ \E order \in IterationOrders(Registered(dir)) :
           slots' = sort_by_name(order)
    /\ op' = NoOp
    /\ UNCHANGED <<allowed_hosts, clock, chapters, episodes, streams,
                   pages_by, op_count>>
    /\ UNCHANGED <<cacheVars, workerVars, sideVars, identVars, raceVars>>

\* How a call of load_plugins_from_directory finds its directory: readable,
\* not existing, or failing under read_dir / on an entry.
DirOutcomes == {"ok", "missing", "read_error"}

\* PluginManager::load_plugins_from_directory called again on a manager
\* that has slots: self.slots.clear() comes first; a directory that does
\* not exist returns Ok(()) and a read error returns Err through `?`, both
\* with the list cleared; otherwise the stems found are pushed and sorted.
ReloadPlugins(dir, found) ==
    /\ Idle
    /\ 0 < op_count /\ op_count < MaxOps
    /\ op_count' = op_count + 1
    /\ IF found = "ok"
       THEN \E order \in IterationOrders(Registered(dir)) :
                slots' = sort_by_name(order)
       ELSE slots' = << >>
    /\ op' = [NoOp EXCEPT !.name = "load",
                          !.status = IF found = "read_error" THEN "err"
                                     ELSE "ok"]
    /\ UNCHANGED <<allowed_hosts, clock, chapters, episodes, streams,
                   pages_by>>
    /\ UNCHANGED <<cacheVars, workerVars, sideVars, identVars, raceVars>>

\* A second passes between two operations.
AdvanceClock ==
    /\ Idle
    /\ clock < MaxNow
    /\ clock' = clock + 1
    /\ op' = NoOp
    /\ UNCHANGED <<allowed_hosts, slots, chapters, episodes, streams,
                   pages_by, op_count>>
    /\ UNCHANGED <<cacheVars, workerVars, sideVars, identVars, raceVars>>

\* What retry_once hands to fetch_media_list: Err, or Ok(list).
GuestMediaResults == {None} \cup {Some(l) : l \in GuestMediaLists}

GuestUnitResults == {None} \cup {Some(l) : l \in GuestUnitLists}
GuestAssetResults == {None} \cup {Some(l) : l \in GuestAssetLists}

Next ==
    \/ \E dir \in PluginDirs : LoadPlugins(dir)
    \/ AdvanceClock
    \/ \E kind \in {Manga, Anime}, q \in Queries, refresh \in BOOLEAN :
           SearchBegin(kind, q, refresh)
    \/ SearchHit
    \/ \E res \in GuestMediaResults : SearchMiss(res)
    \/ \E failure \in CallFailures : SearchFail(failure)
    \/ SearchReturn
    \/ \E kind \in {Manga, Anime}, id \in MediaIds : UnitsBegin(kind, id)
    \/ \E res \in GuestUnitResults : UnitsReply(res)
    \/ \E res \in GuestAssetResults : AssetsReply(res)
    \/ \E failure \in CallFailures : FirstHitFail(failure)
    \/ UnitsReturn
    \/ \E id \in UnitIds : ImagesCached(id)
    \/ \E id \in UnitIds, refresh \in BOOLEAN : ImagesBegin(id, refresh)
    \/ ImagesRetry
    \/ ImagesReturn
    \/ \E id \in UnitIds : StreamsBegin(id)
    \/ StreamsReturn

Spec == ConfiguredInit /\ [][Next]_vars

\* The searches of the aggregator, made within one second, over a database
\* whose writes may fail, and reloads of the plugin directory, which may
\* fail to be read.
FaultyNext ==
    \/ \E dir \in PluginDirs : LoadPlugins(dir)
    \/ \E dir \in PluginDirs, found \in DirOutcomes :
           ReloadPlugins(dir, found)
    \/ \E kind \in {Manga, Anime}, q \in Queries, refresh \in BOOLEAN :
           SearchBegin(kind, q, refresh)
    \/ \E ident_ok \in BOOLEAN : SearchHitWith(ident_ok)
    \/ \E res \in GuestMediaResults, cache_ok \in BOOLEAN,
          ident_ok \in BOOLEAN : SearchMissWith(res, cache_ok, ident_ok)
    \/ \E failure \in CallFailures : SearchFail(failure)
    \/ SearchReturn

SpecFaulty == Init /\ [][FaultyNext]_vars

----------------------------------------------------------------------------
----------------------------------------------------------------------------
(* plugins/plugin.rs: one Plugin, its operations step by step.              *)

MaxPluginOps == 2
RetryWaitMs == 200

\* File stems a Plugin is built from; name.contains("mangadex_plugin").
PluginNames == {"p1", "mangadex_plugin"}
IsMangadex(name) == name = "mangadex_plugin"

\* ProviderCapabilities as the guest reports them.
Caps(media_types, unit_kinds, asset_kinds) ==
    [media_types |-> media_types, unit_kinds |-> unit_kinds,
     asset_kinds |-> asset_kinds]
GuestCaps ==
    {Caps({Manga}, {"Chapter"}, {"Page", "Image"}),
     Caps({Anime}, {"Episode"}, {"Video"})}
GuestCapsResults == {None} \cup {Some(c) : c \in GuestCaps}

FetchOps == {"fetchmedialist", "fetchunits", "fetchassets"}
PluginOps == FetchOps \cup {"getcapabilities"}

\* What one invocation of the operation's export can come back with:
\* None is a trap or an error.
GuestResults(opname) ==
    CASE opname = "fetchmedialist" -> GuestMediaResults
      [] opname = "fetchunits" -> GuestUnitResults
      [] opname = "fetchassets" -> GuestAssetResults
      [] OTHER -> GuestCapsResults
\* What the host-side MangaDex requests come back with, failures being
\* unwrap_or_default()ed into the empty list.
UrlMangadex == Url("https", <<"mangadex", "org">>)
UrlUploads == Url("https", <<"uploads", "mangadex", "org">>)
FallbackLists(opname) ==
    CASE opname = "fetchmedialist" ->
             {<< >>, <<Media("md1", Manga, "Untitled", None, None)>>}
      [] opname = "fetchunits" ->
             {<< >>, <<Unit("mdc1", "Chapter", "Ch. 1", Some(UrlMangadex))>>}
      [] opname = "fetchassets" -> {<< >>, <<Asset(UrlUploads, "Page")>>}
      [] OTHER -> {<< >>}
Ok(v) == <<"Ok", v>>
Err == <<"Err">>

\* matches!(&self.allowed_hosts, Some(v) if v.is_empty())
EmptyAllowListNever(allowed) == FALSE
EmptyAllowList(allowed) == allowed = Some(<< >>)

\* Err(e1) if attempt == 0: the failure is retried.
RetriedAlways(n) == TRUE
Retried(n) == n = 0

\* PluginConfig, and the <name>.toml files next to an artifact: a file
\* that reads and parses into a config, one that cannot be read, one that
\* does not parse.
DefaultRateLimitMs == 150
DefaultCallTimeoutMs == 15000
PluginConfig(allowed, rate_limit_ms, call_timeout_ms) ==
    [allowed_hosts |-> allowed, rate_limit_ms |-> rate_limit_ms,
     call_timeout_ms |-> call_timeout_ms]
TomlFiles(allowed) ==
    {[state |-> "ok", cfg |-> PluginConfig(allowed, None, None)],
     [state |-> "ok", cfg |-> PluginConfig(allowed, Some(100), Some(5000))],
     [state |-> "unreadable", cfg |-> PluginConfig(allowed, Some(100), Some(5000))],
     [state |-> "unparseable", cfg |-> PluginConfig(allowed, Some(100), Some(5000))]}

\* #[derive(Default)] on PluginConfig
PluginConfigDefault == PluginConfig(None, None, None)

\* A loader that takes the file's settings whatever state the file is in.
load_config_as_written(file) == file.cfg

\* fs::read_to_string(&cfg_path).ok().and_then(|s| toml::from_str(&s).ok())
\*     .unwrap_or_default()
load_config(file) ==
    IF file.state = "ok" THEN file.cfg ELSE PluginConfigDefault

\* x.unwrap_or(d)
UnwrapOr(x, d) == IF x = None THEN d ELSE x[1]

Min(a, b) == IF a < b THEN a ELSE b

\* The epoch ticker: ticks of EpochIntervalMs, counted up to MaxTicks; the
\* far deadline of Plugin::new and clear_deadline.
EpochIntervalMs == 10
FarTicks == 1000000000
MaxTicks == 3

\* Wall-clock time since last_call, in steps of ElapseStepMs and followed
\* up to MaxElapsedMs (which stands for that much or more).
ElapseStepMs == 50
MaxElapsedMs == 200

\* Plugin::set_deadline
set_deadline(p) ==
    LET now == p.epoch_ticks
        per_tick_ms == IF EpochIntervalMs > 1 THEN EpochIntervalMs ELSE 1
        need == (p.call_timeout + per_tick_ms - 1) \div per_tick_ms
    IN  [p EXCEPT !.deadline = "near", !.deadline_at = now + need,
                  !.armed_at = now]

\* A clear_deadline that leaves the deadline as it is.
clear_deadline_not(p) == p

\* Plugin::clear_deadline
clear_deadline(p) ==
    LET now == p.epoch_ticks
    IN  [p EXCEPT !.deadline = "far", !.deadline_at = now + FarTicks,
                  !.armed_at = now]

\* A throttle that never sleeps.
throttle_wait_none(last_call, elapsed, rate_limit) == 0

\* if let Some(last) = self.last_call { if elapsed < self.rate_limit
\* { sleep(self.rate_limit - elapsed) } }: the time slept.
throttle_wait(last_call, elapsed, rate_limit) ==
    IF last_call /\ elapsed < rate_limit THEN rate_limit - elapsed ELSE 0

\* Plugin::throttle; start_gap is the time from the last start to this one.
throttle(p) ==
    LET wait == throttle_wait(p.last_call, p.elapsed, p.rate_limit)
    IN  [p EXCEPT !.throttle_slept = wait,
                  !.start_gap = IF p.last_call
                                THEN Some(Min(p.elapsed + wait, MaxElapsedMs))
                                ELSE None,
                  !.last_call = TRUE, !.elapsed = 0]

\* Plugin::new: <name>.toml is loaded, the far deadline is set, the
\* capabilities are prefetched (None when that call fails).
PluginNewFrom(name, file, caps) ==
    /\ ~plugin.built
    /\ LET cfg == load_config(file)
           now == plugin.epoch_ticks
       IN  plugin' =
               [plugin EXCEPT
                   !.built = TRUE, !.name = name, !.toml = file.state,
                   !.allowed_hosts = cfg.allowed_hosts, !.caps = caps,
                   !.rate_limit =
                       UnwrapOr(cfg.rate_limit_ms, DefaultRateLimitMs),
                   !.call_timeout =
                       UnwrapOr(cfg.call_timeout_ms, DefaultCallTimeoutMs),
                   !.deadline = "far", !.deadline_at = now + FarTicks,
                   !.armed_at = now]
    /\ UNCHANGED <<cacheVars, workerVars, identVars, raceVars, aggVars, daoVars,
                   slotVars, pureVars>>

\* Plugin::new beside any of the .toml files that would set allowed.
PluginNew(name, allowed, caps) ==
    \E file \in TomlFiles(allowed) : PluginNewFrom(name, file, caps)

\* fetch_media_list / fetch_units / fetch_assets / get_capabilities_refresh
\* up to the call of retry_once: a fetch with an empty allow-list returns
\* at once; otherwise throttle() and set_deadline().
PluginBegun(opname, kind) ==
    LET fresh == [plugin EXCEPT !.opname = opname, !.kind = kind,
                                !.attempt = 0, !.exports = 0,
                                !.throttles = 0, !.deadlines = 0,
                                !.slept = 0, !.failed = 0, !.res = None,
                                !.ret = <<"none">>, !.ops = @ + 1,
                                !.cached = FALSE, !.start_gap = None,
                                !.throttle_slept = 0]
    IN  IF opname \in FetchOps /\ EmptyAllowList(plugin.allowed_hosts)
        THEN [fresh EXCEPT !.pc = "done", !.ret = Ok(<< >>)]
        ELSE set_deadline(throttle(
                 [fresh EXCEPT !.pc = "attempt", !.throttles = 1,
                               !.deadlines = 1]))

PluginBegin(opname, kind) ==
    /\ plugin.built
    /\ plugin.pc \in {"idle", "done"}
    /\ plugin.ops < MaxPluginOps
    /\ opname # "fetchmedialist" => kind = Manga
    /\ plugin' = PluginBegun(opname, kind)
    /\ UNCHANGED <<cacheVars, workerVars, identVars, raceVars, aggVars, daoVars,
                   slotVars, pureVars>>

\* A Plugin that never finds its capabilities stored.
CapsKnownNever(caps) == FALSE

\* if let Some(c) = &self.caps
CapsKnown(caps) == caps # None

\* get_capabilities_cached (GetCapabilities { refresh: false }): the stored
\* capabilities are returned; if there are none it is
\* get_capabilities_refresh.
PluginCapsCached ==
    /\ plugin.built
    /\ plugin.pc \in {"idle", "done"}
    /\ plugin.ops < MaxPluginOps
    /\ LET fresh == [plugin EXCEPT !.opname = "getcapabilities",
                                   !.kind = Manga,
                                   !.attempt = 0, !.exports = 0,
                                   !.throttles = 0, !.deadlines = 0,
                                   !.slept = 0, !.failed = 0, !.res = None,
                                   !.ret = <<"none">>, !.ops = @ + 1,
                                   !.cached = TRUE, !.start_gap = None,
                                   !.throttle_slept = 0]
       IN  plugin' =
               IF CapsKnown(plugin.caps)
               THEN [fresh EXCEPT !.pc = "done", !.ret = Ok(plugin.caps[1])]
               ELSE set_deadline(throttle(
                        [fresh EXCEPT !.pc = "attempt", !.throttles = 1,
                                      !.deadlines = 1]))
    /\ UNCHANGED <<cacheVars, workerVars, identVars, raceVars, aggVars, daoVars,
                   slotVars, pureVars>>

\* retry_once, one turn of its loop: set_deadline(), the export is
\* invoked, clear_deadline(), and the result is matched.
PluginInvoke(opname, r) ==
    /\ plugin.pc = "attempt"
    /\ plugin.opname = opname
    /\ LET called == clear_deadline(set_deadline(
                         [plugin EXCEPT !.exports = @ + 1,
                                        !.deadlines = @ + 1]))
       IN  plugin' =
               IF r # None
               THEN [called EXCEPT !.res = Ok(r[1]), !.pc = "after"]
               ELSE IF Retried(plugin.attempt)
               THEN [called EXCEPT !.failed = @ + 1, !.pc = "sleep"]
               ELSE [called EXCEPT !.failed = @ + 1, !.res = Err,
                                   !.pc = "after"]
    /\ UNCHANGED <<cacheVars, workerVars, identVars, raceVars, aggVars, daoVars,
                   slotVars, pureVars>>

\* std::thread::sleep(Duration::from_millis(200)); continue
PluginSleep ==
    /\ plugin.pc = "sleep"
    /\ plugin' = [plugin EXCEPT !.slept = @ + RetryWaitMs,
                                !.elapsed = Min(@ + RetryWaitMs, MaxElapsedMs),
                                !.attempt = @ + 1, !.pc = "attempt"]
    /\ UNCHANGED <<cacheVars, workerVars, identVars, raceVars, aggVars, daoVars,
                   slotVars, pureVars>>

\* The operation's own match on res decides to ask MangaDex from the host.
UsesFallback(name, opname, kind, res) ==
    /\ IsMangadex(name)
    /\ CASE opname = "fetchmedialist" ->
                /\ kind = Manga
                /\ IF res = Err THEN TRUE
                   ELSE fetch_media_list(None, Some(res[2])) = << >>
         [] opname \in {"fetchunits", "fetchassets"} ->
                IF res = Err THEN TRUE ELSE res[2] = << >>
         [] OTHER -> FALSE

\* What the operation returns for the outcome res of retry_once; fb is
\* what the host-side fallback yields, if it is used.
plugin_return(p, fb) ==
    LET guest == IF p.res = Err THEN None ELSE Some(p.res[2])
        given == IF UsesFallback(p.name, p.opname, p.kind, p.res)
                 THEN Some(fb) ELSE guest
    IN  CASE p.opname = "fetchmedialist" ->
                 Ok(IF UsesFallback(p.name, p.opname, p.kind, p.res)
                    THEN [i \in 1..Len(fb) |->
                             [fb[i] EXCEPT
                                 !.url = NullIfDisallowed(p.allowed_hosts, @),
                                 !.cover_url =
                                     NullIfDisallowed(p.allowed_hosts, @)]]
                    ELSE fetch_media_list(p.allowed_hosts, guest))
          [] p.opname = "fetchunits" ->
                 Ok(fetch_units(p.allowed_hosts, given))
          [] p.opname = "fetchassets" ->
                 Ok(fetch_assets(p.allowed_hosts, given))
          [] OTHER -> p.res

\* After retry_once: clear_deadline(), and the operation returns.
PluginReturn(opname, fb) ==
    /\ plugin.pc = "after"
    /\ plugin.opname = opname
    /\ IF UsesFallback(plugin.name, plugin.opname, plugin.kind, plugin.res)
       THEN TRUE ELSE fb = << >>
    /\ plugin' = clear_deadline(
                     [plugin EXCEPT
                         !.pc = "done",
                         !.ret = plugin_return(plugin, fb),
                         !.caps = IF plugin.opname = "getcapabilities"
                                     /\ plugin.res # Err
                                  THEN Some(plugin.res[2]) ELSE @])
    /\ UNCHANGED <<cacheVars, workerVars, identVars, raceVars, aggVars, daoVars,
                   slotVars, pureVars>>

PluginNext ==
    \/ \E name \in PluginNames, allowed \in AllowLists,
          caps \in GuestCapsResults : PluginNew(name, allowed, caps)
    \/ \E opname \in PluginOps, kind \in {Manga, Anime} :
           PluginBegin(opname, kind)
    \/ PluginCapsCached
    \/ \E opname \in PluginOps :
           \E r \in GuestResults(opname) : PluginInvoke(opname, r)
    \/ PluginSleep
    \/ \E opname \in PluginOps :
           \E fb \in FallbackLists(opname) : PluginReturn(opname, fb)

SpecPlugin == Init /\ [][PluginNext]_vars

\* Time passes on the plugin's thread and for its callers.
PluginElapse ==
    /\ plugin.built /\ plugin.last_call
    /\ plugin.elapsed < MaxElapsedMs
    /\ plugin' = [plugin EXCEPT
                     !.elapsed = Min(@ + ElapseStepMs, MaxElapsedMs)]
    /\ UNCHANGED <<cacheVars, workerVars, identVars, raceVars, aggVars, daoVars,
                   slotVars, pureVars>>

ThrottleNext == PluginNext \/ PluginElapse

SpecThrottle == Init /\ [][ThrottleNext]_vars

\* The ticker thread of PluginManager::new: ticks.store(1), then one
\* sleep(epoch_interval); increment_epoch(); fetch_add(1) per iteration.
\* The counter was made as AtomicU64::new(0).
EpochTick ==
    /\ plugin.epoch_ticks < MaxTicks
    /\ plugin' = IF plugin.ticker = "spawned"
                 THEN [plugin EXCEPT !.epoch_ticks = 1, !.ticker = "running"]
                 ELSE [plugin EXCEPT !.epoch_ticks = @ + 1]
    /\ UNCHANGED <<cacheVars, workerVars, identVars, raceVars, aggVars, daoVars,
                   slotVars, pureVars>>

EpochNext == PluginNext \/ EpochTick

SpecEpoch == Init /\ [][EpochNext]_vars

----------------------------------------------------------------------------
(* dao.rs: the statements on the library tables, called one at a time.     *)

DaoSeriesIds == {"u01", "u02"}

\* The columns of a ChapterInsert / EpisodeInsert besides its ids.
UnitColumns(number_text, number_num, title, lang, group, published, upload) ==
    [number_text |-> number_text, number_num |-> number_num,
     title |-> title, lang |-> lang, group |-> group,
     published_at |-> published, upload_group |-> upload]
ColumnsFirst ==
    UnitColumns(Some("1"), Some(1), Some("First"), Some("en"), Some("v1"),
                Some("2020-01-01"), Some("g1"))
ColumnsSecond ==
    UnitColumns(Some("1.5"), Some(2), Some("Second"), Some("fr"), Some("v2"),
                Some("2021-01-01"), Some("g2"))

\* ChapterInsert / EpisodeInsert
ChapterInsert(id, series_id, source_id, external_id, cols) ==
    [id |-> id, series_id |-> series_id, source_id |-> source_id,
     external_id |-> external_id,
     number_text |-> cols.number_text, number_num |-> cols.number_num,
     title |-> cols.title, lang |-> cols.lang, group |-> cols.group,
     published_at |-> cols.published_at,
     upload_group |-> cols.upload_group]

\* The rows callers hand to the DAO; a (series, source, external id) key
\* always comes with the canonical id the callers looked up for it.
DaoSeriesInserts == {series_insert_from_media(id, M1) : id \in DaoSeriesIds}
DaoSeriesSources ==
    {series_source_from("u01", "p1", "m1"), series_source_from("u02", "p2", "m1")}
DaoChapterInserts ==
    {ChapterInsert("u03", "u01", "p1", "c1", cols) :
         cols \in {ColumnsFirst, ColumnsSecond}}
        \cup {ChapterInsert("u04", "u02", "p2", "c1", ColumnsFirst)}
DaoEpisodeInserts ==
    {ChapterInsert("u05", "u01", "p1", "e1", ColumnsFirst),
     ChapterInsert("u06", "u02", "p2", "e1", ColumnsFirst)}
DaoChapterIds == {"u03", "u04"}
DaoEpisodeIds == {"u05", "u06"}

\* INSERT INTO episodes ... ON CONFLICT(series_id, source_id, external_id)
\* DO UPDATE SET ...: the same statement as for chapters, season for volume.
upsert_episode(table, e) == upsert_chapter(table, e)

\* INSERT INTO chapter_images ... ON CONFLICT(chapter_id, idx) DO UPDATE SET
\* url, mime, width, height, for every image, in one transaction.
RECURSIVE upsert_chapter_images(_, _)
upsert_chapter_images(table, images) ==
    IF images = << >> THEN table
    ELSE LET img == Head(images)
         IN  upsert_chapter_images(
                 {r \in table : ~(r.chapter_id = img.chapter_id
                                     /\ r.idx = img.idx)} \cup {img},
                 Tail(images))

\* INSERT INTO chapter_progress ... ON CONFLICT(chapter_id) DO UPDATE SET
\* series_id, page_index, total_pages
upsert_chapter_progress(table, chapter_id, series_id, page_index) ==
    {r \in table : r.chapter_id # chapter_id}
        \cup {[chapter_id |-> chapter_id, series_id |-> series_id,
               page_index |-> page_index]}

\* INSERT INTO series_prefs ... ON CONFLICT(series_id) DO UPDATE SET
\* download_path
upsert_series_pref(table, series_id, path) ==
    {r \in table : r.series_id # series_id}
        \cup {[series_id |-> series_id, download_path |-> path]}

\* Rows that stay when nothing is removed along with a series.
NotOfSeriesKeepAll(table, series_id) == table

\* The rows of a child table that do not reference the series: what the
\* cascade of DELETE FROM series WHERE id = ? leaves of it.
NotOfSeries(table, series_id) == {r \in table : r.series_id # series_id}

\* The rows of a grandchild table whose parent (a chapter or an episode)
\* stays.
WithChapterIn(table, parents) ==
    {r \in table : \E p \in parents : p.id = r.chapter_id}
WithEpisodeIn(table, parents) ==
    {r \in table : \E p \in parents : p.id = r.episode_id}

\* What no DAO statement on the library tables touches.
daoFrame == <<cacheVars, workerVars, raceVars, plugVars, slotVars, pureVars,
              allowed_hosts, slots,
              clock, pages_by, op_count, op, sources, uuid_count>>

DaoCall(name, arg, ret, cascaded) ==
    [name |-> name, arg |-> arg, ret |-> ret, cascaded |-> cascaded]
HasId(table, id) == \E r \in table : r.id = id

\* dao::upsert_series
DaoUpsertSeries(s) ==
    /\ series' = upsert_series(series, s)
    /\ dao_op' = DaoCall("upsert_series", "", 0, 0)
    /\ UNCHANGED <<series_sources, chapters, episodes, streams,
                   chapter_images, chapter_progress, series_prefs>>
    /\ UNCHANGED daoFrame

\* dao::upsert_series_source, the series being there.
DaoUpsertSeriesSource(ss) ==
    /\ HasId(series, ss.series_id)
    /\ series_sources' = upsert_series_source(series_sources, ss)
    /\ dao_op' = DaoCall("upsert_series_source", "", 0, 0)
    /\ UNCHANGED <<series, chapters, episodes, streams, chapter_images,
                   chapter_progress, series_prefs>>
    /\ UNCHANGED daoFrame

\* dao::upsert_chapter, the series being there.
DaoUpsertChapter(c) ==
    /\ HasId(series, c.series_id)
    /\ chapters' = upsert_chapter(chapters, c)
    /\ dao_op' = DaoCall("upsert_chapter", "", 0, 0)
    /\ UNCHANGED <<series, series_sources, episodes, streams, chapter_images,
                   chapter_progress, series_prefs>>
    /\ UNCHANGED daoFrame

\* dao::upsert_episode, the series being there.
DaoUpsertEpisode(e) ==
    /\ HasId(series, e.series_id)
    /\ episodes' = upsert_episode(episodes, e)
    /\ dao_op' = DaoCall("upsert_episode", "", 0, 0)
    /\ UNCHANGED <<series, series_sources, chapters, streams, chapter_images,
                   chapter_progress, series_prefs>>
    /\ UNCHANGED daoFrame

\* dao::upsert_chapter_images with one page, the chapter being there.
DaoUpsertChapterImages(chapter_id) ==
    /\ HasId(chapters, chapter_id)
    /\ chapter_images' =
           upsert_chapter_images(chapter_images,
               <<[chapter_id |-> chapter_id, idx |-> 0, url |-> UrlCdn]>>)
    /\ dao_op' = DaoCall("upsert_chapter_images", "", 0, 0)
    /\ UNCHANGED <<series, series_sources, chapters, episodes, streams,
                   chapter_progress, series_prefs>>
    /\ UNCHANGED daoFrame

\* dao::upsert_streams with one video, the episode being there.
DaoUpsertStreams(episode_id) ==
    /\ HasId(episodes, episode_id)
    /\ streams' = upsert_streams(streams, episode_id, <<A3>>)
    /\ dao_op' = DaoCall("upsert_streams", "", 0, 0)
    /\ UNCHANGED <<series, series_sources, chapters, episodes, chapter_images,
                   chapter_progress, series_prefs>>
    /\ UNCHANGED daoFrame

\* dao::upsert_chapter_progress for a stored chapter and its series.
DaoUpsertChapterProgress(chapter_id, page_index) ==
    /\ HasId(chapters, chapter_id)
    /\ LET ch == CHOOSE r \in chapters : r.id = chapter_id
       IN  chapter_progress' =
               upsert_chapter_progress(chapter_progress, chapter_id,
                                       ch.series_id, page_index)
    /\ dao_op' = DaoCall("upsert_chapter_progress", "", 0, 0)
    /\ UNCHANGED <<series, series_sources, chapters, episodes, streams,
                   chapter_images, series_prefs>>
    /\ UNCHANGED daoFrame

\* A check that finds every series.
series_exists_always(table, series_id) == TRUE

\* SELECT 1 FROM series WHERE id = ?; exists.is_some()
series_exists(table, series_id) == HasId(table, series_id)

\* dao::set_series_download_path: Err("Series not found") for an unknown
\* series, else the pref row is written.
DaoSetSeriesDownloadPath(series_id, path) ==
    /\ IF series_exists(series, series_id)
       THEN /\ series_prefs' = upsert_series_pref(series_prefs, series_id, path)
            /\ dao_op' = DaoCall("set_series_download_path", series_id, 0, 0)
       ELSE /\ series_prefs' = series_prefs
            /\ dao_op' = DaoCall("set_series_download_path", series_id, -1, 0)
    /\ UNCHANGED <<series, series_sources, chapters, episodes, streams,
                   chapter_images, chapter_progress>>
    /\ UNCHANGED daoFrame

\* dao::delete_series: DELETE FROM series WHERE id = ?, and with the row
\* the rows of the child tables that reference it; Ok(rows_affected).
DaoDeleteSeries(series_id) ==
    LET gone == {r \in series : r.id = series_id}
        chapters1 == NotOfSeries(chapters, series_id)
        episodes1 == NotOfSeries(episodes, series_id)
        links1 == NotOfSeries(series_sources, series_id)
        prefs1 == NotOfSeries(series_prefs, series_id)
        progress1 == WithChapterIn(NotOfSeries(chapter_progress, series_id),
                                   chapters1)
        images1 == WithChapterIn(chapter_images, chapters1)
        streams1 == WithEpisodeIn(streams, episodes1)
        Removed(before, after) == Cardinality(before \ after)
    IN  /\ IF gone = {}
           THEN /\ UNCHANGED <<series, series_sources, chapters, episodes,
                               streams, chapter_images, chapter_progress,
                               series_prefs>>
                /\ dao_op' = DaoCall("delete_series", series_id, 0, 0)
           ELSE /\ series' = series \ gone
                /\ series_sources' = links1
                /\ chapters' = chapters1
                /\ episodes' = episodes1
                /\ series_prefs' = prefs1
                /\ chapter_progress' = progress1
                /\ chapter_images' = images1
                /\ streams' = streams1
                /\ dao_op' =
                       DaoCall("delete_series", series_id, Cardinality(gone),
                               Removed(series_sources, links1)
                                   + Removed(chapters, chapters1)
                                   + Removed(episodes, episodes1)
                                   + Removed(series_prefs, prefs1)
                                   + Removed(chapter_progress, progress1)
                                   + Removed(chapter_images, images1)
                                   + Removed(streams, streams1))
        /\ UNCHANGED daoFrame

DaoNext ==
    \/ \E s \in DaoSeriesInserts : DaoUpsertSeries(s)
    \/ \E ss \in DaoSeriesSources : DaoUpsertSeriesSource(ss)
    \/ \E c \in DaoChapterInserts : DaoUpsertChapter(c)
    \/ \E e \in DaoEpisodeInserts : DaoUpsertEpisode(e)
    \/ \E id \in DaoChapterIds : DaoUpsertChapterImages(id)
    \/ \E id \in DaoEpisodeIds : DaoUpsertStreams(id)
    \/ \E id \in DaoChapterIds : DaoUpsertChapterProgress(id, 3)
    \/ \E id \in DaoSeriesIds : DaoSetSeriesDownloadPath(id, Some("/library"))
    \/ \E id \in DaoSeriesIds : DaoDeleteSeries(id)

SpecDao == Init /\ [][DaoNext]_vars

C3_NoDisallowedUrl ==
    LET Matches(allowed, url) ==
            /\ url.host # << >>
            /\ \E i \in 1..Len(allowed[1]) :
                   LET d == allowed[1][i].host
                       n == Len(url.host) - Len(d)
                   IN  \/ url.host = d
                       \/ /\ allowed[1][i].wild
                          /\ n > 0
                          /\ \A k \in 1..Len(d) : url.host[n + k] = d[k]
        Clean(allowed, x) ==
            allowed = None \/ x = None \/ Matches(allowed, x[1])
        Real(m) == m.id # "error"
    IN  /\ op.name = "search" =>
               \A i \in 1..Len(op.all) :
                   /\ Clean(allowed_hosts[op.all[i][1]], op.all[i][2].url)
                   /\ Clean(allowed_hosts[op.all[i][1]], op.all[i][2].cover_url)
        /\ (op.name = "units" /\ op.source # None) =>
               \A i \in 1..Len(op.all) :
                   Clean(allowed_hosts[op.source[1]], op.all[i].url)
        /\ (op.name = "images" /\ op.source # None) =>
               \A i \in 1..Len(op.all) :
                   Clean(allowed_hosts[op.source[1]], Some(op.all[i]))
        /\ (op.name = "streams" /\ op.source # None) =>
               \A i \in 1..Len(op.all) :
                   Clean(allowed_hosts[op.source[1]], Some(op.all[i].url))
        /\ \A allowed \in
                   IF op_count = 0 THEN AllowLists \ {None, Some(<< >>)} ELSE {} :
               /\ \A l \in GuestMediaLists :
                      LET out == fetch_media_list(allowed, Some(l))
                          kept == SelectSeq(l, Real)
                      IN  /\ Len(out) = Len(kept)
                          /\ \A i \in 1..Len(out) :
                                 /\ out[i].id = kept[i].id
                                 /\ ~Clean(allowed, kept[i].url)
                                        => out[i].url = None
                                 /\ ~Clean(allowed, kept[i].cover_url)
                                        => out[i].cover_url = None
               /\ \A l \in GuestUnitLists :
                      LET out == fetch_units(allowed, Some(l))
                      IN  /\ Len(out) = Len(l)
                          /\ \A i \in 1..Len(out) :
                                 /\ out[i].id = l[i].id
                                 /\ ~Clean(allowed, l[i].url)
                                        => out[i].url = None
               /\ \A l \in GuestAssetLists :
                      LET out == fetch_assets(allowed, Some(l))
                      IN  \A i \in 1..Len(out) :
                              Clean(allowed, Some(out[i].url))

\* A search served from the cache returned m1 of a restricted plugin with
\* its page URL kept and its cover URL (on evil.com) gone.
C3_Witness ==
    /\ op.name = "search" /\ op.status = "ok"
    /\ \E i \in 1..Len(op.all) :
           /\ op.all[i][1] \in op.hits
           /\ allowed_hosts[op.all[i][1]] # None
           /\ op.all[i][2].id = "m1"
           /\ op.all[i][2].url = Some(UrlCdn)
           /\ op.all[i][2].cover_url = None

(* C8 as stated: a search over several plugins does not fail because one  *)
(* plugin failed to load, dropped its reply or timed out.                  *)
C8_SearchSurvivesPluginFailure ==
    (op.name = "search" /\ Len(slots) >= 2) => op.status # "err"

(* C9: a first-hit fetch asks the plugins one at a time in ascending name  *)
(* order and returns the kind-filtered list of the first plugin whose list *)
(* is non-empty, with that plugin's name; it asks no plugin after it and   *)
(* merges nothing.                                                         *)
C9_FirstHitInNameOrder ==
    (op.name \in {"units", "images", "streams"} /\ op.hits = {}) =>
        LET n == Len(op.invoked) IN
        /\ \A i, j \in 1..Len(slots) :
               i < j => NameRank(slots[i]) < NameRank(slots[j])
        /\ n <= Len(slots)
        /\ Len(op.lists) = n
        /\ \A j \in 1..n : op.invoked[j] = slots[j]
        /\ \A j \in 1..n : j < n => op.lists[j] = << >>
        /\ op.source # None =>
               /\ n > 0
               /\ op.source = Some(op.invoked[n])
               /\ op.all # << >>
               /\ op.all = op.lists[n]
        /\ op.source = None =>
               /\ op.all = << >>
               /\ \A j \in 1..n : op.lists[j] = << >>
               /\ op.status = "ok" => n = Len(slots)
        /\ op.name = "units" =>
               \A k \in 1..Len(op.all) :
                   op.all[k].kind = IF op.kind = Manga THEN "Chapter"
                                                       ELSE "Episode"
        /\ op.name = "streams" =>
               \A k \in 1..Len(op.all) : op.all[k].kind = "Video"

\* An asset fetch over two plugins: p1 had nothing for it, p2's videos
\* were returned.
C9_Witness ==
    /\ op.name = "streams" /\ op.status = "ok"
    /\ op.invoked = <<"p1", "p2">>
    /\ op.source = Some("p2")
    /\ Len(op.all) = 2

C11_CanonicalKeyWritten ==
    (op.name = "images" /\ op.status = "ok" /\ op.hits = {}) =>
        \A c \in chapters :
            (c.external_id = op.arg /\ c.id # op.arg) =>
                \E r \in search_cache : r.key = PagesKey(c.id)

(* C12: on a plugin whose allowed_hosts is present and empty, each of      *)
(* fetch_media_list, fetch_units and fetch_assets returns Ok(empty list)   *)
(* at once: no throttle, no deadline and no export call takes place.       *)
C12_EmptyAllowListSkipsSandbox ==
    (plugin.built /\ plugin.opname \in FetchOps
        /\ plugin.allowed_hosts = Some(<< >>)) =>
        /\ plugin.pc = "done"
        /\ plugin.ret = Ok(<< >>)
        /\ plugin.exports = 0
        /\ plugin.throttles = 0
        /\ plugin.deadlines = 0
        /\ plugin.deadline = "far"

\* The second operation on such a plugin was a fetch of assets.
C12_Witness ==
    /\ plugin.allowed_hosts = Some(<< >>)
    /\ plugin.opname = "fetchassets"
    /\ plugin.pc = "done"
    /\ plugin.ops = 2

(* C19: an operation invokes its export at most twice; the second          *)
(* invocation takes place exactly when the first one failed, and after a   *)
(* wait of 200 ms; there is no third.                                      *)
C19_AtMostOneRetry ==
    /\ plugin.exports <= 2
    /\ plugin.slept \in {0, RetryWaitMs}
    /\ plugin.exports = 2 => (plugin.failed >= 1 /\ plugin.slept = RetryWaitMs)
    /\ (plugin.exports = 2 /\ plugin.failed = 1) =>
           (plugin.pc \in {"after", "done"} /\ plugin.res # Err)
    /\ (plugin.pc \in {"after", "done"} /\ plugin.failed >= 1) =>
           plugin.exports = 2
    /\ (plugin.pc \in {"after", "done"} /\ plugin.failed = 0) =>
           (plugin.exports <= 1 /\ plugin.slept = 0)

\* The first invocation failed and the retry succeeded.
C19_Witness ==
    /\ plugin.pc = "done"
    /\ plugin.exports = 2
    /\ plugin.failed = 1
    /\ plugin.slept = RetryWaitMs

(* C20: when the first invocation and the retry both fail, the operation   *)
(* returns an error to its caller.                                         *)
C20_SecondFailureIsError ==
    (plugin.pc = "done" /\ plugin.failed = 2) => plugin.ret = Err

(* C13: load_plugins_from_directory registers no stem that has a .wasm or  *)
(* .cwasm artifact but no sibling <stem>.toml, so list_plugins does not    *)
(* name it; and every call a search or fetch makes goes to a plugin that   *)
(* list_plugins names, so no worker is made for such a stem.               *)
C13_NoTomlNoPlugin ==
    /\ [](/\ \A k \in 1..Len(op.invoked) :
                 \E j \in 1..Len(slots) : slots[j] = op.invoked[k]
          /\ op.source # None =>
                 \E j \in 1..Len(slots) : slots[j] = op.source[1]
          /\ op.name = "search" =>
                 \A k \in 1..Len(op.all) :
                     \E j \in 1..Len(slots) : slots[j] = op.all[k][1])
    /\ [][\A dir \in PluginDirs :
              LoadPlugins(dir) =>
                  \A f \in dir :
                      (f[2] \in {"wasm", "cwasm"} /\ <<f[1], "toml">> \notin dir)
                          => \A j \in 1..Len(slots') : slots'[j] # f[1]]_vars

\* p2 had no p2.toml: a search over the loaded plugins asked p1 alone.
C13_Witness ==
    /\ slots = <<"p1">>
    /\ op.name = "search" /\ op.status = "ok"
    /\ op.invoked = <<"p1">>
    /\ Len(op.all) >= 1

(* C14: an upsert of a chapter whose (series_id, source_id, external_id)   *)
(* is already stored leaves exactly one row for that key, and every other  *)
(* column of it (number_text, number_num, title, lang, group,              *)
(* published_at, upload_group) has the value the call passed.              *)
C14_SecondUpsertWins ==
    [][\A c \in DaoChapterInserts :
           (DaoUpsertChapter(c) /\ \E r \in chapters : SameUnitKey(r, c)) =>
               LET rows == {r \in chapters' : SameUnitKey(r, c)}
               IN  /\ Cardinality(rows) = 1
                   /\ \A r \in rows :
                          /\ r.number_text = c.number_text
                          /\ r.number_num = c.number_num
                          /\ r.title = c.title
                          /\ r.lang = c.lang
                          /\ r.group = c.group
                          /\ r.published_at = c.published_at
                          /\ r.upload_group = c.upload_group]_vars

(* C15: once delete_series(s) has returned, no series_sources, chapter,    *)
(* episode, stream, chapter image, progress or pref row refers to s, to    *)
(* one of its chapters or to one of its episodes; and the call leaves the  *)
(* rows of every other series as they were.                                *)
C15_DeleteSeriesCascades ==
    /\ [](dao_op.name = "delete_series" =>
            LET s == dao_op.arg
                Of(table) == {r \in table : r.series_id = s}
            IN  /\ Of(series_sources) = {} /\ Of(chapters) = {}
                /\ Of(episodes) = {} /\ Of(series_prefs) = {}
                /\ Of(chapter_progress) = {}
                /\ \A r \in series : r.id # s
                /\ \A r \in chapter_images : HasId(chapters, r.chapter_id)
                /\ \A r \in chapter_progress : HasId(chapters, r.chapter_id)
                /\ \A r \in streams : HasId(episodes, r.episode_id))
    /\ [][\A s \in DaoSeriesIds :
              DaoDeleteSeries(s) =>
                  LET Others(table) == {r \in table : r.series_id # s}
                      OtherChapters == {r.id : r \in Others(chapters)}
                      OtherEpisodes == {r.id : r \in Others(episodes)}
                      UnderC(table) ==
                          {r \in table : r.chapter_id \in OtherChapters}
                      UnderE(table) ==
                          {r \in table : r.episode_id \in OtherEpisodes}
                  IN  /\ {r \in series' : r.id # s} = {r \in series : r.id # s}
                      /\ Others(series_sources') = Others(series_sources)
                      /\ Others(chapters') = Others(chapters)
                      /\ Others(episodes') = Others(episodes)
                      /\ Others(series_prefs') = Others(series_prefs)
                      /\ Others(chapter_progress') = Others(chapter_progress)
                      /\ UnderC(chapter_images') = UnderC(chapter_images)
                      /\ UnderE(streams') = UnderE(streams)]_vars

\* delete_series removed a series with seven rows under it while the other
\* series keeps a chapter with its page and progress, and an episode with
\* its stream.
C15_Witness ==
    /\ dao_op.name = "delete_series"
    /\ dao_op.ret = 1
    /\ dao_op.cascaded = 7
    /\ Cardinality(series) = 1
    /\ chapters # {} /\ episodes # {} /\ streams # {}
    /\ chapter_images # {} /\ chapter_progress # {} /\ series_prefs # {}
    /\ series_sources # {}


C17_RoutedOnlyIfSupported ==
    (plugin.built /\ plugin.opname = "fetchmedialist"
        /\ plugin.caps # None /\ ~EmptyAllowList(plugin.allowed_hosts)) =>
        (plugin.exports > 0 => plugin.kind \in plugin.caps[1].media_types)

(* C18: get_chapter_images hands the plugins the chapter's external id,    *)
(* never the canonical id, whichever of the two the caller supplied: each  *)
(* fetchAssets call of an image fetch carries the resolved external id.    *)
C18_PluginsGetExternalId ==
    (op.name = "images" /\ op.invoked # << >>) => op.try_id = op.external_id


(* C21: in a first-hit operation a plugin that fails to load, returns an   *)
(* error, drops its reply or times out is skipped and the loop goes on     *)
(* with the next plugin; the operation ends with (None, empty list) only   *)
(* if every plugin failed or gave an empty filtered list, and it never     *)
(* ends in an error because of a plugin's failure.                         *)
C21_FirstHitSkipsFailures ==
    (op.name \in {"units", "images", "streams"} /\ op.hits = {}) =>
        LET n == Len(op.invoked) IN
        /\ op.status # "err"
        /\ \A j \in 1..n :
               op.invoked[j] \in op.failed =>
                   /\ op.i > j
                   /\ op.lists[j] = << >>
                   /\ op.source # Some(op.invoked[j])
        /\ (op.status = "ok" /\ op.source = None) =>
               /\ op.all = << >>
               /\ n = Len(slots)
               /\ \A j \in 1..n :
                      /\ op.invoked[j] = slots[j]
                      /\ op.invoked[j] \in op.failed \/ op.lists[j] = << >>
        /\ (op.status = "ok" /\ op.source # None) =>
               /\ op.all # << >>
               /\ op.source[1] \notin op.failed

\* A unit fetch over two plugins: the call on p1 failed, p2's units were
\* returned.
C21_Witness ==
    /\ op.name = "units" /\ op.status = "ok"
    /\ op.invoked = <<"p1", "p2">>
    /\ op.failed = {"p1"}
    /\ op.source = Some("p2")
    /\ op.all # << >>

\* An image fetch in which every plugin failed ended with the empty list.
C21_WitnessAllFailed ==
    /\ op.name = "images" /\ op.status = "ok"
    /\ op.failed = {"p1", "p2"}
    /\ op.source = None /\ op.all = << >>

----------------------------------------------------------------------------
(* plugins.rs: one PluginSlot, its state lock and the tasks that call      *)
(* worker() on it.                                                         *)

\* The artifacts found for one stem: ArtifactSet { wasm, cwasm }.
ArtifactSets == [wasm : BOOLEAN, cwasm : BOOLEAN]

\* ArtifactSet::into_artifacts(prefer_precompiled)
into_artifacts(set, prefer_precompiled) ==
    CASE set.cwasm /\ set.wasm /\ prefer_precompiled ->
             Some([primary |-> "cwasm", fallback |-> Some("wasm")])
      [] set.cwasm /\ set.wasm /\ ~prefer_precompiled ->
             Some([primary |-> "wasm", fallback |-> Some("cwasm")])
      [] set.cwasm /\ ~set.wasm ->
             Some([primary |-> "cwasm", fallback |-> None])
      [] ~set.cwasm /\ set.wasm ->
             Some([primary |-> "wasm", fallback |-> None])
      [] OTHER -> None

\* A lock that any task may take at any time.
GuardFreeAlways(g) == TRUE

\* self.state.lock().await resolves when no task holds the guard.
GuardFree(g) == g = 0

\* A slot that never has a fallback to try.
HasFallbackNever(f) == FALSE

\* if let Some(fallback_path) = &self.artifacts.fallback
HasFallback(f) == f # None

\* Err(err) of worker(): the error of the artifact tried last.
SlotErr(path) == <<"Err", path>>

\* An artifact that never loads, whatever is on disk.
instantiate_fails(path, loadable) == SlotErr(path)

\* self.instantiate(path): Ok once the artifact and its .toml exist and the
\* plugin loads from them, else the error of that artifact.
instantiate(path, loadable) == IF loadable THEN Ok(path) ELSE SlotErr(path)

slotFrame == <<cacheVars, workerVars, identVars, raceVars, aggVars, plugVars,
               daoVars, pureVars>>

\* load_plugins_from_directory makes the slot of a stem from the artifacts
\* it found: PluginSlot::new(name, artifacts, ..), state None.
SlotNew(set, prefer_precompiled) ==
    /\ ~pslot.made
    /\ into_artifacts(set, prefer_precompiled) # None
    /\ LET a == into_artifacts(set, prefer_precompiled)[1]
       IN  pslot' = [NoSlot EXCEPT !.made = TRUE, !.primary = a.primary,
                                   !.fallback = a.fallback]
    /\ UNCHANGED slotFrame

\* A task calls slot.worker() and comes to self.state.lock().await.
SlotCall(c) ==
    /\ pslot.made
    /\ pslot.pc[c] \in {"idle", "done"}
    /\ pslot.calls[c] < MaxSlotCalls
    /\ pslot' = [pslot EXCEPT !.pc[c] = "lock", !.calls[c] = @ + 1,
                              !.tried[c] = << >>, !.ret[c] = <<"none">>]
    /\ UNCHANGED slotFrame

\* The lock is granted: the task holds the guard.
SlotLock(c) ==
    /\ pslot.pc[c] = "lock"
    /\ GuardFree(pslot.guard)
    /\ pslot' = [pslot EXCEPT !.pc[c] = "locked", !.guard = c]
    /\ UNCHANGED slotFrame

\* if let Some(worker) = guard.as_ref() { return Ok(worker.clone()) }
SlotReady(c) ==
    /\ pslot.pc[c] = "locked"
    /\ pslot.state # None
    /\ pslot' = [pslot EXCEPT !.pc[c] = "done", !.guard = 0,
                              !.ret[c] = Ok(pslot.state[1])]
    /\ UNCHANGED slotFrame

\* self.instantiate(&primary_path).await with the guard held: on Ok the
\* worker (its thread and channel) exists and is stored in the state; on
\* Err the fallback is next if there is one, else Err(err).
SlotPrimary(c, loaded) ==
    /\ pslot.pc[c] = "locked"
    /\ pslot.state = None
    /\ LET tried == Append(pslot.tried[c],
                           [path |-> pslot.primary, ok |-> loaded])
       IN  pslot' =
               IF instantiate(pslot.primary, loaded)[1] = "Ok"
               THEN [pslot EXCEPT !.tried[c] = tried,
                                  !.workers = @ + 1,
                                  !.state = Some(pslot.workers + 1),
                                  !.ret[c] = Ok(pslot.workers + 1),
                                  !.pc[c] = "done", !.guard = 0]
               ELSE IF HasFallback(pslot.fallback)
               THEN [pslot EXCEPT !.tried[c] = tried, !.pc[c] = "fallback"]
               ELSE [pslot EXCEPT !.tried[c] = tried,
                                  !.ret[c] = SlotErr(pslot.primary),
                                  !.pc[c] = "done", !.guard = 0]
    /\ UNCHANGED slotFrame

\* self.instantiate(fallback_path).await, the guard still held.
SlotFallback(c, loaded) ==
    /\ pslot.pc[c] = "fallback"
    /\ LET tried == Append(pslot.tried[c],
                           [path |-> pslot.fallback[1], ok |-> loaded])
       IN  pslot' =
               IF instantiate(pslot.fallback[1], loaded)[1] = "Ok"
               THEN [pslot EXCEPT !.tried[c] = tried,
                                  !.workers = @ + 1,
                                  !.state = Some(pslot.workers + 1),
                                  !.ret[c] = Ok(pslot.workers + 1),
                                  !.pc[c] = "done", !.guard = 0]
               ELSE [pslot EXCEPT !.tried[c] = tried,
                                  !.ret[c] = SlotErr(pslot.fallback[1]),
                                  !.pc[c] = "done", !.guard = 0]
    /\ UNCHANGED slotFrame

SlotNext ==
    \/ \E set \in ArtifactSets, prefer \in BOOLEAN : SlotNew(set, prefer)
    \/ \E c \in SlotCallers : SlotCall(c)
    \/ \E c \in SlotCallers : SlotLock(c)
    \/ \E c \in SlotCallers : SlotReady(c)
    \/ \E c \in SlotCallers, loaded \in BOOLEAN : SlotPrimary(c, loaded)
    \/ \E c \in SlotCallers, loaded \in BOOLEAN : SlotFallback(c, loaded)

SpecSlot == Init /\ [][SlotNext]_vars

(* C22: when several tasks make the first call on one plugin slot at the   *)
(* same time, the slot's lock serializes loading: at most one task holds   *)
(* the guard, at most one worker is ever created for the slot, and every   *)
(* task that obtains a worker obtains that one.                            *)
C22_OneWorkerPerSlot ==
    /\ pslot.workers <= 1
    /\ Cardinality({c \in SlotCallers :
                       pslot.pc[c] \in {"locked", "fallback"}}) <= 1
    /\ \A c \in SlotCallers :
           pslot.ret[c][1] = "Ok" =>
               /\ pslot.state = Some(pslot.ret[c][2])
               /\ pslot.ret[c][2] = 1

\* Both tasks called worker() before the slot had a worker: one loaded the
\* primary artifact while the other waited for the lock, and both hold
\* the same worker.
C22_Witness ==
    /\ pslot.workers = 1
    /\ \A c \in SlotCallers :
           /\ pslot.calls[c] = 1 /\ pslot.pc[c] = "done"
           /\ pslot.ret[c] = Ok(1)
    /\ \E c \in SlotCallers : pslot.tried[c] # << >>
    /\ \E c \in SlotCallers : pslot.tried[c] = << >>

\* A task is loading the slot's artifact while another waits for the lock.
C22_WitnessWaiting ==
    /\ pslot.state = None
    /\ \E c, d \in SlotCallers :
           pslot.pc[c] = "locked" /\ pslot.pc[d] = "lock"

(* C23: a call of worker() that finds no worker instantiates the primary   *)
(* artifact first and the fallback only after the primary failed; if the   *)
(* primary fails and there is no fallback, or both fail, the caller gets   *)
(* the instantiation error and the call creates no worker.                 *)
C23_PrimaryThenFallback ==
    /\ [](\A c \in SlotCallers :
            LET t == pslot.tried[c] IN
            /\ Len(t) <= 2
            /\ Len(t) >= 1 => t[1].path = pslot.primary
            /\ Len(t) = 2 =>
                   /\ ~t[1].ok
                   /\ pslot.fallback = Some(t[2].path)
            /\ pslot.pc[c] = "fallback" => (Len(t) = 1 /\ ~t[1].ok)
            /\ (pslot.pc[c] = "done" /\ pslot.ret[c][1] = "Err") =>
                   /\ t # << >>
                   /\ \A i \in 1..Len(t) : ~t[i].ok
                   /\ Len(t) = 2 \/ pslot.fallback = None
                   /\ pslot.ret[c] = SlotErr(t[Len(t)].path)
            /\ (pslot.pc[c] = "done" /\ pslot.ret[c][1] = "Ok"
                    /\ t # << >>) => t[Len(t)].ok)
    /\ [][\A c \in SlotCallers :
            (pslot.ret[c][1] # "Err" /\ pslot'.ret[c][1] = "Err") =>
                /\ pslot'.workers = pslot.workers
                /\ pslot'.state = None]_vars

\* With a cwasm primary and a wasm fallback: a call whose primary failed
\* got its worker from the fallback, and a call got the fallback's error
\* after both failed.
C23_Witness ==
    /\ pslot.primary = "cwasm" /\ pslot.fallback = Some("wasm")
    /\ pslot.pc[1] = "done" /\ pslot.ret[1] = SlotErr("wasm")
    /\ Len(pslot.tried[1]) = 2
    /\ pslot.pc[2] = "done" /\ pslot.ret[2] = Ok(1)
    /\ Len(pslot.tried[2]) = 2


(* C24: the worker executes the commands of its plugin in exactly the      *)
(* order in which they were enqueued on its channel: the commands started  *)
(* so far are the first of those enqueued, in the same order, each once,   *)
(* and the channel holds the rest in order.                                *)
C24_ExecutedInEnqueueOrder ==
    LET e == cmdlog.enqueued
        s == cmdlog.started
    IN  /\ Len(s) <= Len(e)
        /\ \A i \in 1..Len(s) : s[i] = e[i]
        /\ \A i, j \in 1..Len(s) : s[i] = s[j] => i = j
        /\ ~wdead => e = s \o chan
        /\ \A c \in running : s # << >> /\ s[Len(s)] = c

\* Two commands waited in the channel behind a running one, enqueued out
\* of the callers' index order, and all of them were started.
C24_Witness ==
    /\ Len(cmdlog.enqueued) >= 3
    /\ cmdlog.started = cmdlog.enqueued
    /\ \E i \in 1..Len(cmdlog.enqueued) - 1 :
           cmdlog.enqueued[i] > cmdlog.enqueued[i + 1]

(* C25: when call_timeout expires the requester gets a timeout error and   *)
(* its command stays with the worker, which may still run it or start it   *)
(* later; the result of a command is only ever put into that command's own *)
(* reply slot, a call that has returned keeps the outcome it returned      *)
(* with, and the worker goes on with the commands that follow.             *)
C25_LateResultDiscarded ==
    /\ [](\A c \in Callers :
            (req[c] = "done" /\ outcome[c].kind = "timeout") =>
                /\ outcome[c].at = CallTimeout
                /\ \E i \in 1..Len(cmdlog.enqueued) : cmdlog.enqueued[i] = c)
    /\ [][\A c \in Callers :
            /\ (req[c] = "waiting" /\ req'[c] = "done"
                    /\ outcome'[c].kind = "timeout") =>
                   /\ chan' = chan /\ running' = running
                   /\ wdead' = wdead /\ cmdlog' = cmdlog
            /\ req[c] = "done" =>
                   (req'[c] = "done" /\ outcome'[c] = outcome[c])
            /\ (reply[c] = "empty" /\ reply'[c] \in {"ok", "err"}) =>
                   (c \in running /\ c \notin running'
                    /\ \A d \in Callers \ {c} : reply'[d] = reply[d])
            /\ (c \in running /\ c \notin running' /\ ~wdead') =>
                   (chan' = chan /\ reply'[c] \in {"ok", "err"})]_vars

\* A caller got its timeout error; the worker finished that command
\* afterwards, and the command enqueued behind it was run and answered.
C25_Witness ==
    \E c, d \in Callers :
        /\ req[c] = "done" /\ outcome[c].kind = "timeout"
        /\ reply[c] = "ok"
        /\ req[d] = "done" /\ outcome[d].kind = "ok"
        /\ \E i, j \in 1..Len(cmdlog.started) :
               i < j /\ cmdlog.started[i] = c /\ cmdlog.started[j] = d


(* C26: once a plugin's capabilities are stored, GetCapabilities with      *)
(* refresh = false returns the stored value without entering the sandbox;  *)
(* with refresh = true getCapabilities is always invoked, its value        *)
(* replaces the stored one on success, and the stored one is left as it    *)
(* is on failure.                                                          *)
C26_CapabilitiesCached ==
    /\ []((plugin.opname = "getcapabilities" /\ ~plugin.cached
              /\ plugin.pc \in {"after", "done"}) => plugin.exports >= 1)
    /\ [][/\ (plugin.caps # None /\ plugin'.cached
                  /\ plugin'.ops = plugin.ops + 1) =>
                 /\ plugin'.pc = "done"
                 /\ plugin'.ret = Ok(plugin.caps[1])
                 /\ plugin'.exports = 0 /\ plugin'.throttles = 0
                 /\ plugin'.caps = plugin.caps
          /\ (plugin.opname = "getcapabilities" /\ plugin.pc = "after"
                  /\ plugin'.pc = "done") =>
                 IF plugin.res = Err
                 THEN plugin'.caps = plugin.caps /\ plugin'.ret = Err
                 ELSE /\ plugin'.caps = Some(plugin.res[2])
                      /\ plugin'.ret = Ok(plugin.res[2])
          /\ (plugin.built /\ plugin'.caps # plugin.caps) =>
                 (plugin.opname = "getcapabilities" /\ plugin.pc = "after")
         ]_vars

\* The capabilities being stored, the second call, made without refresh,
\* returned them with no export call.
C26_Witness ==
    /\ plugin.ops = 2 /\ plugin.cached /\ plugin.pc = "done"
    /\ plugin.opname = "getcapabilities"
    /\ plugin.exports = 0
    /\ plugin.caps = Some(Caps({Anime}, {"Episode"}, {"Video"}))
    /\ plugin.ret = Ok(plugin.caps[1])

\* A refresh failed twice: Err, with the stored capabilities still there.
C26_WitnessFailedRefresh ==
    /\ plugin.opname = "getcapabilities" /\ ~plugin.cached
    /\ plugin.pc = "done" /\ plugin.ret = Err /\ plugin.exports = 2
    /\ plugin.caps # None

(* C27: a call of get_or_create_series_id that finds the mapping of        *)
(* (source, external_id) returns the mapped series id and updates the      *)
(* stored series metadata if and only if the supplied media's title is     *)
(* non-empty: with a title the row takes the media's title, description    *)
(* and cover; with an empty title the row is left as it is.                *)
C27_MetadataUpdatedIffTitled ==
    [][\A t \in Tasks :
          (rpc[t] = "find" /\ rpc'[t] = "done") =>
              LET media == rarg[t][1].media
                  id == rret'[t][1]
              IN  /\ \E m \in MappingsOf(rarg[t][1].source_id, media.id) :
                         m.series_id = id
                  /\ IF media.title = ""
                     THEN series' = series
                     ELSE \E r \in series' :
                              /\ r.id = id
                              /\ r.title = media.title
                              /\ r.description = media.description
                              /\ r.cover_url = media.cover_url]_vars


C29_ReloadKeepsListOnError ==
    [][(op'.name = "load" /\ op' # op) =>
          IF op'.status = "err"
          THEN slots' = slots
          ELSE \/ slots' = << >>
               \/ \E dir \in PluginDirs :
                      /\ \A j \in 1..Len(slots') : slots'[j] \in Registered(dir)
                      /\ Len(slots') = Cardinality(Registered(dir))]_vars

(* C30: repeating a unit fetch for the same media id creates no duplicate  *)
(* rows: each returned unit has exactly one row per (series_id, source_id, *)
(* external_id); a unit stored before is updated in place and keeps its    *)
(* canonical UUID, and only a unit not yet stored gets a new UUID.         *)
C30_RepeatedFetchNoDuplicates ==
    /\ [](\A table \in {chapters, episodes} :
            \A r, q \in table :
                (SameUnitKey(r, q) \/ r.id = q.id) => r = q)
    /\ [][LET Kept(old, new) ==
                  \A r \in old :
                      \E q \in new : q.id = r.id /\ SameUnitKey(q, r)
              Fresh(old, new) ==
                  \A q \in new :
                      (\A r \in old : ~SameUnitKey(r, q)) =>
                          \E k \in (uuid_count + 1)..Len(UuidPool) :
                              q.id = Uuid(k)
              Stored(table, source_id, units) ==
                  \A k \in 1..Len(units) :
                      Cardinality({q \in table :
                                      /\ q.source_id = source_id
                                      /\ q.external_id = units[k].id}) = 1
          IN  (op.name = "units" /\ op.status = "run"
                  /\ op'.status = "ok") =>
                 /\ Kept(chapters, chapters') /\ Kept(episodes, episodes')
                 /\ Fresh(chapters, chapters')
                 /\ Fresh(episodes, episodes')
                 /\ op.source # None =>
                        Stored(IF op.kind = Manga THEN chapters'
                                                  ELSE episodes',
                               op.source[1], op.all)]_vars

\* The chapters of m1 were fetched twice from the same plugin: the second
\* fetch made no series and handed out no UUID, and the chapter's one row
\* is there.
C30_Witness ==
    /\ op_count = 2
    /\ op.name = "units" /\ op.status = "ok" /\ op.kind = Manga
    /\ op.source # None /\ op.made = {}
    /\ Cardinality(series) = 1 /\ \A r \in series : r.title = ""
    /\ Cardinality(chapters) = 1 /\ episodes = {}
    /\ uuid_count = 2

----------------------------------------------------------------------------
(* lib.rs norm_query and the search key, applied to two raw queries of one *)
(* search kind.                                                            *)

\* The raw queries: strings of at most MaxQueryLen characters.
MaxQueryLen == 4
QueryChars == {" ", "U+3000", "A", "a", "U+00C9"}
QueryStrings == UNION {[1..n -> QueryChars] : n \in 0..MaxQueryLen}

SwapCase(ch) == IF ch = "A" THEN "a" ELSE IF ch = "a" THEN "A" ELSE ch
InsertAt(q, i, ch) == SubSeq(q, 1, i) \o <<ch>> \o SubSeq(q, i + 1, Len(q))
RemoveAt(q, i) == SubSeq(q, 1, i - 1) \o SubSeq(q, i + 1, Len(q))

\* Position i of q is whitespace (no position outside q is).
SpaceAt(q, i) == IF i \in 1..Len(q) THEN IsWhitespace(q[i]) ELSE FALSE

\* The queries one edit away from q: an ASCII letter in the other case, a
\* whitespace character of another kind, a whitespace character more or
\* less at either end or inside a whitespace run.
Respellings(q) ==
    LET spaces == {w \in QueryChars : IsWhitespace(w)}
        grow == {i \in 0..Len(q) :
                    i = 0 \/ i = Len(q) \/ SpaceAt(q, i) \/ SpaceAt(q, i + 1)}
        shrink == {i \in 1..Len(q) :
                      SpaceAt(q, i) /\ (i = 1 \/ i = Len(q)
                                        \/ SpaceAt(q, i - 1)
                                        \/ SpaceAt(q, i + 1))}
    IN  {[q EXCEPT ![i] = SwapCase(q[i])] : i \in 1..Len(q)}
        \cup {[q EXCEPT ![i] = w] :
                  i \in {j \in 1..Len(q) : SpaceAt(q, j)}, w \in spaces}
        \cup (IF Len(q) < MaxQueryLen
              THEN {InsertAt(q, i, w) : i \in grow, w \in spaces} ELSE {})
        \cup {RemoveAt(q, i) : i \in shrink}

NormInit ==
    /\ OthersIdleInit
    /\ pure \in {[fn |-> "input", arg |-> [a |-> q], res |-> << >>] :
                    q \in QueryStrings}

\* Two searches of one kind on one plugin, for query a and for its
\* respelling b: each composes its key from norm_query of its query.
NormSearchPair(kind, source) ==
    /\ pure.fn = "input"
    /\ \E b \in Respellings(pure.arg.a) :
           pure' = [fn |-> "norm_query",
                    arg |-> [a |-> pure.arg.a, b |-> b, kind |-> kind,
                             source |-> source],
                    res |-> [norm |-> norm_query(pure.arg.a),
                             twice |-> norm_query(norm_query(pure.arg.a)),
                             key_a |-> SearchKey(source, kind,
                                                 norm_query(pure.arg.a)),
                             key_b |-> SearchKey(source, kind,
                                                 norm_query(b))]]
    /\ UNCHANGED <<cacheVars, workerVars, identVars, raceVars, aggVars,
                   plugVars, daoVars, slotVars>>

NormNext ==
    \E kind \in {Manga, Anime}, source \in Plugins :
        NormSearchPair(kind, source)

SpecNorm == NormInit /\ [][NormNext]_vars

(* C31: two searches of one kind whose raw queries differ only in leading  *)
(* or trailing whitespace, in ASCII letter case or in the length and kind  *)
(* of inner whitespace runs compose the same cache key for a plugin;       *)
(* norm_query applied twice gives what it gives applied once; and the      *)
(* characters that are not whitespace come out in their order, unchanged   *)
(* but for the ASCII letters, which are lowercased.                        *)
C31_NormalizedKeyStable ==
    pure.fn = "norm_query" =>
        LET NotSpace(ch) == ~IsWhitespace(ch)
            kept == SelectSeq(pure.arg.a, NotSpace)
            norm == pure.res.norm
        IN  /\ pure.res.key_a = pure.res.key_b
            /\ pure.res.twice = norm
            /\ SelectSeq(norm, NotSpace) =
                   [i \in 1..Len(kept) |->
                       IF kept[i] = "A" THEN "a" ELSE kept[i]]
            /\ \A i \in 1..Len(norm) :
                   IsWhitespace(norm[i]) =>
                       /\ norm[i] = " "
                       /\ 1 < i /\ i < Len(norm)
                       /\ ~IsWhitespace(norm[i + 1])

\* "A", a space and an ideographic space, "a" against the same with one
\* space: both keys carry "a a".
C31_Witness ==
    /\ pure.fn = "norm_query"
    /\ pure.arg.a = <<"A", " ", "U+3000", "a">>
    /\ pure.arg.b = <<"A", " ", "a">>
    /\ pure.res.norm = <<"a", " ", "a">>
    /\ pure.res.key_a[4] = <<"a", " ", "a">>

----------------------------------------------------------------------------
(* plugins/plugin.rs: url_allowed, applied to one allow-list and one URL.  *)

\* The allow-lists of at most MaxAllowEntries entries, and the URLs.  A URL
\* is its scheme ("" when Url::parse fails) and its host labels as written
\* (none when host_str() is None).
MaxAllowEntries == 2
AllowEntries ==
    [wild : BOOLEAN,
     host : {<<"example", "com">>, <<"cdn", "example", "com">>}]
AllowListsUpTo(n) ==
    {None} \cup {Some(l) : l \in UNION {[1..k -> AllowEntries] : k \in 0..n}}
UrlSchemes == {"", "http", "https", "ftp"}
UrlHosts ==
    {<< >>, <<"com">>, <<"example", "com">>, <<"Example", "COM">>,
     <<"cdn", "example", "com">>, <<"CDN", "Example", "COM">>,
     <<"a", "b", "example", "com">>, <<"notexample", "com">>,
     <<"example", "com", "evil", "org">>}

UrlInit ==
    /\ OthersIdleInit
    /\ pure \in {[fn |-> "input", arg |-> [allowed |-> a, url |-> Url(s, h)],
                  res |-> << >>] :
                    a \in AllowListsUpTo(MaxAllowEntries),
                    s \in UrlSchemes, h \in UrlHosts}

\* self.url_allowed(url)
UrlCheck ==
    /\ pure.fn = "input"
    /\ pure' = [pure EXCEPT !.fn = "url_allowed",
                            !.res = url_allowed(pure.arg.allowed,
                                                pure.arg.url)]
    /\ UNCHANGED <<cacheVars, workerVars, identVars, raceVars, aggVars,
                   plugVars, daoVars, slotVars>>

UrlNext == UrlCheck

SpecUrl == UrlInit /\ [][UrlNext]_vars

(* C32: with a non-empty allow-list url_allowed(url) is true exactly when  *)
(* the URL parses, its scheme is http or https and its lowercased host     *)
(* equals a non-wildcard entry or, for an entry "*.d", equals d or ends    *)
(* with ".d"; with allowed_hosts unset it is true for every URL.           *)
C32_UrlAllowedExactly ==
    pure.fn = "url_allowed" =>
        LET url == pure.arg.url
            host == ToAsciiLowercaseHost(url.host)
            SubdomainOf(d) ==
                \E k \in 1..Len(host) :
                    k < Len(host) /\ SubSeq(host, k + 1, Len(host)) = d
            Matches(e) ==
                IF e.wild THEN host = e.host \/ SubdomainOf(e.host)
                ELSE host = e.host
        IN  /\ pure.arg.allowed = None => pure.res = TRUE
            /\ (pure.arg.allowed # None /\ pure.arg.allowed[1] # << >>) =>
                   pure.res =
                       ( /\ url.scheme # ""
                         /\ url.scheme \in {"https", "http"}
                         /\ url.host # << >>
                         /\ \E i \in 1..Len(pure.arg.allowed[1]) :
                                Matches(pure.arg.allowed[1][i]) )

\* "*.example.com" lets https://CDN.Example.COM through.
C32_Witness ==
    /\ pure.fn = "url_allowed"
    /\ pure.arg.allowed = Some(<<[wild |-> TRUE, host |-> <<"example", "com">>]>>)
    /\ pure.arg.url = Url("https", <<"CDN", "Example", "COM">>)
    /\ pure.res = TRUE

\* "cdn.example.com" alone turns away the apex and a foreign host that
\* merely contains the entry.
C32_WitnessRejected ==
    /\ pure.fn = "url_allowed"
    /\ pure.arg.allowed =
           Some(<<[wild |-> FALSE, host |-> <<"cdn", "example", "com">>]>>)
    /\ pure.arg.url = Url("http", <<"example", "com">>)
    /\ pure.res = FALSE

----------------------------------------------------------------------------
(* C33: on one plugin at least rate_limit passes between the starts of two *)
(* consecutive operations that enter the sandbox, and an operation that    *)
(* arrives sooner sleeps for the remaining difference before the           *)
(* component is invoked.                                                   *)
C33_RateLimitBetweenStarts ==
    /\ [](plugin.start_gap # None =>
              plugin.start_gap[1] >= plugin.rate_limit)
    /\ [][(plugin.pc \in {"idle", "done"} /\ plugin'.pc = "attempt") =>
             /\ plugin'.exports = 0
             /\ plugin'.throttle_slept =
                    IF plugin.last_call /\ plugin.elapsed < plugin.rate_limit
                    THEN plugin.rate_limit - plugin.elapsed ELSE 0]_vars

\* With the default rate limit an operation arrived 50 ms after the start
\* of the one before it, slept 100 ms, and has not yet been invoked.
C33_Witness ==
    /\ plugin.toml = "unparseable"
    /\ plugin.pc = "attempt" /\ plugin.exports = 0
    /\ plugin.throttle_slept = 100
    /\ plugin.start_gap = Some(150)

\* An operation that arrived after the rate limit had passed did not sleep.
C33_WitnessNoSleep ==
    /\ plugin.pc = "attempt" /\ plugin.exports = 0
    /\ plugin.rate_limit = 100
    /\ plugin.throttle_slept = 0
    /\ plugin.start_gap = Some(150)


(* C34: whenever the plugin is idle its epoch deadline lies FarTicks       *)
(* (10^9) ticks beyond the tick at which it was last armed, and so has not *)
(* expired: every invocation, failed or not, is followed by re-arming the  *)
(* deadline to now + 10^9.                                                 *)
C34_IdleDeadlineFar ==
    /\ []((plugin.built /\ plugin.pc \in {"idle", "done"}) =>
              /\ plugin.deadline_at = plugin.armed_at + 1000000000
              /\ plugin.armed_at <= plugin.epoch_ticks
              /\ plugin.deadline_at > plugin.epoch_ticks)
    /\ [][plugin'.exports = plugin.exports + 1 =>
              plugin'.deadline_at = plugin.epoch_ticks + 1000000000]_vars

\* A capabilities refresh failed twice and returned its error; ticks have
\* passed since, and the deadline is 10^9 beyond the tick of the return.
C34_Witness ==
    /\ plugin.pc = "done" /\ plugin.failed = 2 /\ plugin.ret = Err
    /\ plugin.armed_at = 2
    /\ plugin.epoch_ticks = 3
    /\ plugin.deadline_at = 1000000002


(* C35: the shared epoch tick counter is never 0 when a plugin reads it,   *)
(* never decreases, and grows by exactly one per iteration of the ticker.  *)
C35_TicksNeverReadAsZero ==
    /\ [](plugin.built => plugin.armed_at # 0)
    /\ [][plugin'.epoch_ticks \in
              {plugin.epoch_ticks, plugin.epoch_ticks + 1}]_vars


(* C40: a plugin whose .toml exists but cannot be read or parsed is still  *)
(* loaded, with the default settings: allowed_hosts unset, so that no URL  *)
(* is turned away, rate limit 150 ms and call timeout 15 s.                *)
C40_BrokenTomlGivesDefaults ==
    (plugin.built /\ plugin.toml \in {"unreadable", "unparseable"}) =>
        /\ plugin.allowed_hosts = None
        /\ \A s \in UrlSchemes, h \in UrlHosts :
               url_allowed(plugin.allowed_hosts, Url(s, h))
        /\ plugin.rate_limit = 150
        /\ plugin.call_timeout = 15000

\* A plugin loaded beside an unreadable .toml has returned a search result
\* with its cover URL in place.
C40_Witness ==
    /\ plugin.built /\ plugin.toml = "unreadable"
    /\ plugin.pc = "done" /\ plugin.opname = "fetchmedialist"
    /\ plugin.ret[1] = "Ok" /\ plugin.ret[2] # << >>
    /\ plugin.ret[2][1].cover_url = Some(UrlEvil)

----------------------------------------------------------------------------
(* C36: set_series_download_path for a series id that has no series row    *)
(* fails with the not-found error and leaves series_prefs as it was: no    *)
(* pref row is created or modified.                                        *)
C36_PrefNeedsSeries ==
    [][(dao_op'.name = "set_series_download_path"
           /\ ~HasId(series, dao_op'.arg)) =>
          /\ dao_op'.ret = -1
          /\ series_prefs' = series_prefs
          /\ \A r \in series_prefs' : r.series_id # dao_op'.arg]_vars

\* The call for a series that is not there has failed, and the pref row of
\* the series that is there is still the only one.
C36_Witness ==
    /\ dao_op.name = "set_series_download_path" /\ dao_op.ret = -1
    /\ ~HasId(series, dao_op.arg)
    /\ Cardinality(series_prefs) = 1
    /\ \A r \in series_prefs : r.series_id # dao_op.arg

----------------------------------------------------------------------------
(* db.rs: clear_cache_prefix on a cache whose keys are spelled out         *)
(* character by character.                                                 *)

\* Keys of one to MaxKeyLen characters in at most MaxCacheRows rows, and
\* prefixes of up to MaxKeyLen characters.
MaxKeyLen == 2
MaxCacheRows == 2
ClearChars == {"a", "A", "b", "_", "%"}
ClearKeys == UNION {[1..n -> ClearChars] : n \in 1..MaxKeyLen}
ClearPrefixes ==
    {None} \cup {Some(p) : p \in UNION {[1..n -> ClearChars] : n \in 0..MaxKeyLen}}

\* SQL LIKE without ESCAPE: % stands for any run of characters and _ for
\* any one character; fold says whether the database compares ASCII
\* letters without regard to case (SQLite, the default store, does).
RECURSIVE like(_, _, _)
like(pattern, text, fold) ==
    IF pattern = << >> THEN text = << >>
    ELSE IF Head(pattern) = "%"
    THEN IF like(Tail(pattern), text, fold) THEN TRUE
         ELSE IF text = << >> THEN FALSE
         ELSE like(pattern, Tail(text), fold)
    ELSE IF text = << >> THEN FALSE
    ELSE IF Head(pattern) = "_" THEN like(Tail(pattern), Tail(text), fold)
    ELSE IF (IF fold
             THEN ToAsciiLowercase(Head(pattern)) = ToAsciiLowercase(Head(text))
             ELSE Head(pattern) = Head(text))
    THEN like(Tail(pattern), Tail(text), fold)
    ELSE FALSE

\* DELETE FROM search_cache WHERE key LIKE ?  bound to format!("{}%", p),
\* or DELETE FROM search_cache: the rows that stay.
clear_cache_prefix(table, prefix, fold) ==
    IF prefix = None THEN {}
    ELSE {r \in table : ~like(prefix[1] \o <<"%">>, r.key, fold)}

\* Storage::put_cache for a key given by its characters.
ClearPut(key) ==
    /\ Cardinality(search_cache) < MaxCacheRows
    /\ search_cache' = put_cache(search_cache, key, "a", 1)
    /\ pure' = [fn |-> "put_cache", arg |-> None, res |-> 0]
    /\ UNCHANGED <<got, lastPut>>
    /\ UNCHANGED <<workerVars, identVars, raceVars, aggVars, plugVars,
                   daoVars, slotVars>>

\* Database::clear_cache_prefix(prefix): Ok(rows_affected)
ClearCachePrefix(prefix) ==
    /\ \E fold \in BOOLEAN :
           search_cache' = clear_cache_prefix(search_cache, prefix, fold)
    /\ pure' = [fn |-> "clear_cache_prefix", arg |-> prefix,
                res |-> Cardinality(search_cache)
                            - Cardinality(search_cache')]
    /\ UNCHANGED <<got, lastPut>>
    /\ UNCHANGED <<workerVars, identVars, raceVars, aggVars, plugVars,
                   daoVars, slotVars>>

ClearNext ==
    \/ \E key \in ClearKeys : ClearPut(key)
    \/ \E prefix \in ClearPrefixes : ClearCachePrefix(prefix)

SpecClear == Init /\ [][ClearNext]_vars

(* C37: clear_cache_prefix(Some(p)) deletes exactly the entries whose key  *)
(* starts with the literal string p, leaves every other entry unchanged    *)
(* and returns the number of entries deleted; clear_cache_prefix(None)     *)
(* deletes all entries.                                                    *)
C37_ClearsLiteralPrefix ==
    [][pure'.fn = "clear_cache_prefix" =>
          LET p == pure'.arg
              StartsWith(key) ==
                  /\ Len(p[1]) <= Len(key)
                  /\ SubSeq(key, 1, Len(p[1])) = p[1]
          IN  /\ search_cache' \subseteq search_cache
              /\ pure'.res = Cardinality(search_cache \ search_cache')
              /\ IF p = None THEN search_cache' = {}
                 ELSE search_cache \ search_cache'
                          = {r \in search_cache : StartsWith(r.key)}]_vars

----------------------------------------------------------------------------
(* lib.rs on top of plugins/plugin.rs: cached searches with the Plugin as  *)
(* their one source, the plugin's operation running step by step.          *)

MaxOneSearches == 3
OneQuery == <<"a", " ", "B">>
OneKey == SearchKey(plugin.name, op.kind, norm_query(op.arg))
OneCached ==
    IF op.refresh THEN None ELSE get_cache(search_cache, OneKey, op.now)
OneRunning == op.name = "search" /\ op.status = "run"

\* search_*_cached_with_sources is called; its source list is the plugin.
OneSearchBegin(kind, refresh) ==
    /\ Idle
    /\ plugin.built /\ plugin.pc \in {"idle", "done"}
    /\ op_count < MaxOneSearches
    /\ op_count' = op_count + 1
    /\ op' = [NoOp EXCEPT !.name = "search", !.status = "run", !.kind = kind,
                          !.arg = OneQuery, !.refresh = refresh,
                          !.now = clock]
    /\ UNCHANGED <<allowed_hosts, slots, clock, chapters, episodes, streams,
                   pages_by>>
    /\ UNCHANGED <<cacheVars, workerVars, sideVars, identVars, raceVars>>

\* The loop body with a live cache entry: the plugin is not asked.
OneSearchHit ==
    /\ OneRunning
    /\ op.invoked = << >>
    /\ OneCached # None
    /\ LET list == try_deserialize_media_cache(OneCached[1], op.kind)[1]
           db == PersistMedias(Db, plugin.name, list)
       IN  /\ Commit(db)
           /\ op' = [op EXCEPT !.status = "ok", !.i = @ + 1,
                               !.hits = {plugin.name}, !.made = db.made,
                               !.all = Tagged(plugin.name, list)]
    /\ UNCHANGED <<allowed_hosts, slots, clock, chapters, episodes, streams,
                   pages_by, op_count>>
    /\ UNCHANGED <<cacheVars, workerVars, sideVars, raceVars>>

\* The loop body on a miss or a refresh: search_*_for reaches the plugin's
\* fetch_media_list.
OneSearchCall ==
    /\ OneRunning
    /\ op.invoked = << >>
    /\ OneCached = None
    /\ plugin.ops < MaxPluginOps
    /\ plugin' = PluginBegun("fetchmedialist", op.kind)
    /\ op' = [op EXCEPT !.invoked = <<plugin.name>>]
    /\ UNCHANGED <<allowed_hosts, slots, clock, chapters, episodes, streams,
                   pages_by, op_count>>
    /\ UNCHANGED <<cacheVars, workerVars, identVars, raceVars, daoVars,
                   slotVars, pureVars>>

\* fetch_media_list has returned: its list is cached, its media get
\* their series, and the search returns.
OneSearchStore ==
    /\ OneRunning
    /\ op.invoked # << >>
    /\ plugin.pc = "done"
    /\ LET list == plugin.ret[2]
           db == PersistMedias(Db, plugin.name, list)
       IN  /\ search_cache' = put_cache(search_cache, OneKey,
                                        MediaPayload(list),
                                        SearchExpiry(op.now))
           /\ Commit(db)
           /\ op' = [op EXCEPT !.status = "ok", !.i = @ + 1,
                               !.made = db.made,
                               !.all = Tagged(plugin.name, list)]
    /\ UNCHANGED <<allowed_hosts, slots, clock, chapters, episodes, streams,
                   pages_by, op_count>>
    /\ UNCHANGED <<got, lastPut>>
    /\ UNCHANGED <<workerVars, sideVars, raceVars>>

OneSourceNext ==
    \/ \E name \in PluginNames, allowed \in AllowLists :
           PluginNewFrom(name,
                         [state |-> "ok",
                          cfg |-> PluginConfig(allowed, None, None)], None)
    \/ \E kind \in {Manga, Anime}, refresh \in BOOLEAN :
           OneSearchBegin(kind, refresh)
    \/ OneSearchHit
    \/ OneSearchCall
    \/ \E r \in GuestMediaResults : PluginInvoke("fetchmedialist", r)
    \/ PluginSleep
    \/ \E fb \in FallbackLists("fetchmedialist") :
           PluginReturn("fetchmedialist", fb)
    \/ OneSearchStore
    \/ AdvanceClock
    \/ Idle /\ ClearCachePrefix(None)

SpecOneSource == Init /\ [][OneSourceNext]_vars

(* C38: when fetchMediaList has failed on both attempts fetch_media_list   *)
(* returns Ok: with an empty list, or, for the MangaDex plugin searching   *)
(* manga, with the list of the host-side fallback.  The cached search      *)
(* stores the returned list under the search key with the full search TTL, *)
(* and a search with refresh = false asks the plugin only when the key has *)
(* no live entry: not again until the entry has expired or been cleared.   *)
C38_FailedSearchIsCached ==
    /\ []((plugin.pc = "done" /\ plugin.opname = "fetchmedialist"
              /\ plugin.failed = 2) =>
             /\ plugin.ret[1] = "Ok"
             /\ plugin.ret[2] # << >> =>
                    (IsMangadex(plugin.name) /\ plugin.kind = Manga))
    /\ [][/\ (OneRunning /\ op.invoked # << >> /\ op'.status = "ok") =>
                 \E r \in search_cache' :
                     /\ r.key = OneKey
                     /\ r.payload = MediaPayload(plugin.ret[2])
                     /\ r.expires_at = op.now + SearchTtl
          /\ (plugin'.ops = plugin.ops + 1 /\ ~op.refresh) =>
                 \A r \in search_cache :
                     r.key = OneKey => r.expires_at <= clock]_vars

(* C38 as stated: after two failed attempts fetch_media_list returns Ok    *)
(* with an empty list, whatever the plugin.                                *)
C38_Original ==
    /\ []((plugin.pc = "done" /\ plugin.opname = "fetchmedialist"
              /\ plugin.failed = 2) => plugin.ret = Ok(<< >>))
    /\ [][/\ (OneRunning /\ op.invoked # << >> /\ op'.status = "ok") =>
                 \E r \in search_cache' :
                     /\ r.key = OneKey
                     /\ r.payload = MediaPayload(plugin.ret[2])
                     /\ r.expires_at = op.now + SearchTtl
          /\ (plugin'.ops = plugin.ops + 1 /\ ~op.refresh) =>
                 \A r \in search_cache :
                     r.key = OneKey => r.expires_at <= clock]_vars

\* The plugin's one operation failed twice and returned the empty list;
\* the search after it was served that list from the cache.
C38_Witness ==
    /\ op.name = "search" /\ op.status = "ok" /\ ~op.refresh
    /\ op.hits = {plugin.name} /\ op.all = << >>
    /\ op_count = 2
    /\ plugin.ops = 1 /\ plugin.failed = 2 /\ plugin.ret = Ok(<< >>)

\* The entry has expired and the plugin is asked a second time.
C38_WitnessExpired ==
    /\ op.name = "search" /\ op.status = "run" /\ ~op.refresh
    /\ op.invoked # << >>
    /\ plugin.ops = 2
    /\ \E r \in search_cache :
           r.key = OneKey /\ r.payload = << >> /\ r.expires_at = op.now

(* C39: a failed load leaves the slot without a worker and is not sticky.  *)
(* A call that is answered with the load error leaves the state None; a    *)
(* slot whose state is None has no worker thread; every call that finds    *)
(* the state None, however many calls failed before it, tries the primary  *)
(* artifact and then the fallback; and the call that finds an artifact     *)
(* loadable stores the worker and returns it.                              *)
C39_LoadFailureNotSticky ==
    /\ [](/\ pslot.state = None <=> pslot.workers = 0
          /\ \A c \in SlotCallers :
                 (pslot.pc[c] = "done" /\ pslot.ret[c][1] = "Err") =>
                     /\ pslot.tried[c] # << >>
                     /\ pslot.tried[c][1].path = pslot.primary
                     /\ HasFallback(pslot.fallback) =>
                            /\ Len(pslot.tried[c]) = 2
                            /\ pslot.tried[c][2].path = pslot.fallback[1])
    /\ [][\A c \in SlotCallers :
            /\ (pslot.ret[c][1] # "Err" /\ pslot'.ret[c][1] = "Err") =>
                   (pslot'.state = None /\ pslot'.workers = 0)
            /\ (pslot.pc[c] = "locked" /\ pslot.state = None
                    /\ pslot'.pc[c] # "locked") =>
                   /\ Len(pslot'.tried[c]) = 1
                   /\ pslot'.tried[c][1].path = pslot.primary
            /\ (Len(pslot'.tried[c]) = Len(pslot.tried[c]) + 1
                    /\ pslot'.tried[c][Len(pslot'.tried[c])].ok) =>
                   /\ pslot'.pc[c] = "done"
                   /\ pslot'.ret[c] = Ok(1)
                   /\ pslot'.state = Some(1)
                   /\ pslot'.workers = 1]_vars

\* A call failed on both artifacts; a later call on the same slot tried the
\* primary again, found it loadable and got the slot's worker.
C39_Witness ==
    /\ HasFallback(pslot.fallback)
    /\ \E c, d \in SlotCallers :
           /\ pslot.pc[d] = "done" /\ pslot.ret[d][1] = "Err"
           /\ Len(pslot.tried[d]) = 2
           /\ pslot.pc[c] = "done" /\ pslot.ret[c] = Ok(1)
           /\ Len(pslot.tried[c]) = 1 /\ pslot.tried[c][1].ok
           /\ pslot.workers = 1

\* The same task's first call failed and its second call, after the primary
\* failed again, got the worker from the fallback.
C39_WitnessSameTask ==
    \E c \in SlotCallers :
        /\ pslot.calls[c] = 2 /\ pslot.pc[c] = "done"
        /\ \A d \in SlotCallers \ {c} : pslot.calls[d] = 0
        /\ pslot.ret[c] = Ok(1)
        /\ Len(pslot.tried[c]) = 2 /\ pslot.tried[c][2].ok

====
